---- MODULE Spec2Model ----
(***************************************************************************)
(* A model of lithtml: the tree builder (Dom::build_dom,                   *)
(* Node::build_node_element, Node::build_attribute), the document          *)
(* validator, the formatter and the node iterator.                         *)
(*                                                                         *)
(* Strings are sequences of one-character strings, so that len, trim,      *)
(* to_lowercase and split_whitespace are computed and not assumed.         *)
(***************************************************************************)
EXTENDS Integers, Sequences, FiniteSets, TLC

VARIABLES
    pc,             \* position inside build_dom
    consumed,       \* the pairs the `for pair in pairs` loop has taken so far
    dom,            \* the Dom under construction: tree_type, children, warnings
    vi,             \* index of the validation loops over dom.children
    seen_html,      \* local of the DocumentFragment validation branch
    seen_elements,  \* local of the DocumentFragment validation branch
    error,          \* the Err(..) value build_dom returned, if any
    it_root,        \* the node into_iter was called on
    it_node,        \* NodeIntoIterator.node, as the path from it_root
    it_index,       \* NodeIntoIterator.index: frames (child index, parent path)
    it_last,        \* what the last next() call returned
    it_out,         \* every node next() has yielded so far, in order
    it_calls,       \* number of next() calls made
    rt_pc,          \* position in parse, render, parse again
    rt_input,       \* the markup given to Dom::parse
    rt_dom,         \* what Dom::parse(rt_input) returned
    rt_opts,        \* the FormattingOptions of the rendering
    rt_text,        \* the rendering of rt_dom
    rt_dom2,        \* what Dom::parse(rt_text) returned
    el_pc,          \* position in one call of build_node_element
    el_pair,        \* the node_element pair given to build_node_element
    el_result,      \* what build_node_element returned
    f_pc,           \* position in one call of Node::fmt_opt
    f_inserts,      \* the attributes.insert calls that made the attributes of f_node
    f_node,         \* the node rendered
    f_opts,         \* the FormattingOptions of the call
    f_depth,        \* the depth of the call
    f_text,         \* what the call wrote
    j_pc,           \* position in export and import of the structured record
    j_dom,          \* the Dom exported with to_json
    j_node,         \* the Node exported with to_json
    j_json,         \* the record to_json gave
    j_back,         \* what parse_json returned
    n_pairs,        \* the top-level pairs handed to build_dom and to build_nodes
    n_dom,          \* what build_dom returned
    n_nodes         \* what build_nodes returned

vars == <<pc, consumed, dom, vi, seen_html, seen_elements, error,
          it_root, it_node, it_index, it_last, it_out, it_calls,
          rt_pc, rt_input, rt_dom, rt_opts, rt_text, rt_dom2,
          el_pc, el_pair, el_result,
          f_pc, f_inserts, f_node, f_opts, f_depth, f_text,
          j_pc, j_dom, j_node, j_json, j_back,
          n_pairs, n_dom, n_nodes>>

domVars == <<pc, consumed, dom, vi, seen_html, seen_elements, error>>
itVars == <<it_root, it_node, it_index, it_last, it_out, it_calls>>
rtVars == <<rt_pc, rt_input, rt_dom, rt_opts, rt_text, rt_dom2>>
elVars == <<el_pc, el_pair, el_result>>
fmtVars == <<f_pc, f_inserts, f_node, f_opts, f_depth, f_text>>
jsonVars == <<j_pc, j_dom, j_node, j_json, j_back>>
nodesVars == <<n_pairs, n_dom, n_nodes>>

---------------------------------------------------------------------------
(* Strings                                                                 *)

UpperChars == <<"A","B","C","D","E","F","G","H","I","J","K","L","M",
                "N","O","P","Q","R","S","T","U","V","W","X","Y","Z">>
LowerChars == <<"a","b","c","d","e","f","g","h","i","j","k","l","m",
                "n","o","p","q","r","s","t","u","v","w","x","y","z">>

\* char::to_lowercase on the ASCII letters
LowerChar(c) ==
    IF \E i \in DOMAIN UpperChars : UpperChars[i] = c
    THEN LowerChars[CHOOSE i \in DOMAIN UpperChars : UpperChars[i] = c]
    ELSE c

\* str::to_lowercase
to_lowercase(s) == [i \in DOMAIN s |-> LowerChar(s[i])]

\* char::is_whitespace, on the characters of the model
IsWhitespace(c) == c \in {" ", "\n", "\t"}

\* str::trim: leading and trailing whitespace removed
trim(s) ==
    LET keep == {i \in DOMAIN s : ~IsWhitespace(s[i])}
    IN  IF keep = {} THEN <<>>
        ELSE LET lo == CHOOSE i \in keep : \A j \in keep : i <= j
                 hi == CHOOSE i \in keep : \A j \in keep : j <= i
             IN  SubSeq(s, lo, hi)

\* str::split_whitespace, collected: the maximal runs of non-whitespace
RECURSIVE split_ws(_, _, _)
split_ws(s, i, cur) ==
    IF i > Len(s) THEN (IF cur = <<>> THEN <<>> ELSE <<cur>>)
    ELSE IF IsWhitespace(s[i])
         THEN (IF cur = <<>> THEN <<>> ELSE <<cur>>) \o split_ws(s, i + 1, <<>>)
         ELSE split_ws(s, i + 1, Append(cur, s[i]))

split_whitespace(s) == split_ws(s, 1, <<>>)

---------------------------------------------------------------------------
(* Data model                                                              *)

\* Option<&str>
None == [some |-> FALSE, v |-> <<>>]
Some(s) == [some |-> TRUE, v |-> s]

\* SourceSpan::default()
DefaultSpan ==
    [text |-> <<>>, start_line |-> 0, end_line |-> 0,
     start_column |-> 0, end_column |-> 0]

\* HashMap::new()
EmptyMap == [k \in {} |-> None]

\* HashMap::insert: a later insert of the same key overwrites
MapInsert(m, k, v) ==
    [x \in (DOMAIN m) \cup {k} |-> IF x = k THEN v ELSE m[x]]

\* Node::Element(Element {..}), Node::Text(..), Node::Comment(..): one record
\* shape for the three variants, the unused fields at their defaults.
ElementNode(name, variant, attributes, classes, children, span) ==
    [kind |-> "Element", text |-> <<>>, name |-> name, variant |-> variant,
     attributes |-> attributes, classes |-> classes, children |-> children,
     source_span |-> span]

TextNode(t) ==
    [kind |-> "Text", text |-> t, name |-> <<>>, variant |-> "Void",
     attributes |-> EmptyMap, classes |-> <<>>, children |-> <<>>,
     source_span |-> DefaultSpan]

CommentNode(t) ==
    [kind |-> "Comment", text |-> t, name |-> <<>>, variant |-> "Void",
     attributes |-> EmptyMap, classes |-> <<>>, children |-> <<>>,
     source_span |-> DefaultSpan]

\* Element::default()
DefaultElement(span) == ElementNode(<<>>, "Void", EmptyMap, <<>>, <<>>, span)

\* A pest Pair: its rule, its text (as_str) and its inner pairs
Pair(rule, str, inner) == [rule |-> rule, str |-> str, inner |-> inner]

\* pair.into_inner().as_str(): the text the inner pairs span
RECURSIVE InnerStr(_)
InnerStr(inner) ==
    IF inner = <<>> THEN <<>> ELSE Head(inner).str \o InnerStr(Tail(inner))

\* The span build_node_element reads off the pair: the verbatim text, and the
\* positions, which the model does not track per character.
SpanOf(pair) ==
    [text |-> pair.str, start_line |-> 1, end_line |-> 1,
     start_column |-> 1, end_column |-> 1 + Len(pair.str)]

\* Error::Parsing(format!(..)): the message and its formatted argument
ParsingError(msg, arg) == [variant |-> "Parsing", msg |-> msg, arg |-> arg]

\* format!("{}", error): the text pushed to warnings
Display(e) == <<e.msg, e.arg>>

\* The values of the structured record (JSON): null, a string, an array, an
\* object (a map from field names to values); one record shape for the four.
NoFields == [k \in {} |-> 0]
JNull == [t |-> "null", s |-> <<>>, items |-> <<>>, fields |-> NoFields]
JStr(s) == [t |-> "str", s |-> s, items |-> <<>>, fields |-> NoFields]
JArr(items) == [t |-> "arr", s |-> <<>>, items |-> items, fields |-> NoFields]
JObj(fields) == [t |-> "obj", s |-> <<>>, items |-> <<>>, fields |-> fields]

---------------------------------------------------------------------------
(* Tree builder                                                            *)

\* Node::build_attribute: the fold over the inner pairs of one attr pair.
\* acc = [tag, key, value, error]; the first Err (or the panic of
\* expect("attribute value")) ends the loop.
RECURSIVE attribute_loop(_, _, _)
attribute_loop(pairs, i, acc) ==
    IF i > Len(pairs) THEN acc
    ELSE LET pair == pairs[i] IN
         CASE pair.rule = "attr_key" ->
                attribute_loop(pairs, i + 1, [acc EXCEPT !.key = trim(pair.str)])
           [] pair.rule = "attr_non_quoted" ->
                attribute_loop(pairs, i + 1,
                               [acc EXCEPT !.value = Some(trim(pair.str))])
           [] pair.rule = "attr_quoted" ->
                IF pair.inner = <<>>
                THEN [acc EXCEPT !.tag = "Panic"]
                ELSE IF pair.inner[1].rule = "attr_value"
                     THEN attribute_loop(pairs, i + 1,
                              [acc EXCEPT !.value = Some(pair.inner[1].str)])
                     ELSE [acc EXCEPT !.tag = "Err",
                               !.error = ParsingError("Failed to parse attr value: ",
                                                      pair.inner[1].rule)]
           [] OTHER ->
                [acc EXCEPT !.tag = "Err",
                     !.error = ParsingError("Failed to parse attr: ", pair.rule)]

build_attribute(pairs) ==
    attribute_loop(pairs, 1,
                   [tag |-> "Ok", key |-> <<>>, value |-> None,
                    error |-> ParsingError("", "")])

class_key == <<"c", "l", "a", "s", "s">>

\* push_classes dropping the classes pushed before
push_classes_replacing(element, attr_value) ==
    IF attr_value.some
    THEN [element EXCEPT !.classes = split_whitespace(attr_value.v)]
    ELSE element

\* The "class" arm of build_node_element: every token of the value is pushed
push_classes(element, attr_value) ==
    IF attr_value.some
    THEN [element EXCEPT !.classes = @ \o split_whitespace(attr_value.v)]
    ELSE element

\* insert_attribute keeping the value a key already has
insert_attribute_first_wins(element, attr_key, attr_value) ==
    IF attr_key \in DOMAIN element.attributes THEN element
    ELSE [element EXCEPT !.attributes = MapInsert(@, attr_key, attr_value)]

\* The `_` arm: element.attributes.insert(key, value)
insert_attribute(element, attr_key, attr_value) ==
    [element EXCEPT !.attributes = MapInsert(@, attr_key, attr_value)]

\* Node::build_node_element.  element_loop is its `for pair in pair.into_inner()`
\* loop from inner pair i on, acc = [tag, element, warnings, error]:
\*   tag "Ok"    the loop ended (by exhaustion or by break)
\*   tag "Err"   the `_` arm returned Err(error)
\*   tag "Panic" a callee panicked
\* warnings is the caller's &mut Vec, so what nested calls pushed stays pushed.
RECURSIVE element_loop(_, _, _)
RECURSIVE build_node_element(_, _)

\* the end arm without its break: the variant is set and the loop goes on
on_el_end_continues(inner, i, acc) ==
    element_loop(inner, i + 1, [acc EXCEPT !.element.variant = "Normal"])

\* the el_normal_end | el_raw_text_end arm: the variant is set and `break`
\* leaves the loop, whatever inner pairs follow
on_el_end(inner, i, acc) == [acc EXCEPT !.element.variant = "Normal"]

element_loop(inner, i, acc) ==
    IF i > Len(inner) THEN acc
    ELSE LET pair == inner[i] IN
         CASE pair.rule \in {"node_element", "el_raw_text"} ->
                LET r == build_node_element(pair, acc.warnings) IN
                CASE r.tag = "Some" ->
                       element_loop(inner, i + 1,
                           [acc EXCEPT !.element.children = Append(@, r.node),
                                       !.warnings = r.warnings])
                  [] r.tag = "None" ->
                       element_loop(inner, i + 1, [acc EXCEPT !.warnings = r.warnings])
                  [] r.tag = "Err" ->
                       element_loop(inner, i + 1,
                           [acc EXCEPT !.warnings = Append(r.warnings, Display(r.error))])
                  [] OTHER -> [acc EXCEPT !.tag = "Panic", !.warnings = r.warnings]
           [] pair.rule \in {"node_text", "el_raw_text_content"} ->
                IF trim(pair.str) # <<>>
                THEN element_loop(inner, i + 1,
                         [acc EXCEPT !.element.children = Append(@, TextNode(pair.str))])
                ELSE element_loop(inner, i + 1, acc)
           [] pair.rule = "node_comment" ->
                element_loop(inner, i + 1,
                    [acc EXCEPT !.element.children =
                                    Append(@, CommentNode(InnerStr(pair.inner)))])
           [] pair.rule \in {"el_name", "el_void_name", "el_raw_text_name"} ->
                element_loop(inner, i + 1, [acc EXCEPT !.element.name = pair.str])
           [] pair.rule = "attr" ->
                LET a == build_attribute(pair.inner) IN
                CASE a.tag = "Ok" ->
                       element_loop(inner, i + 1,
                           [acc EXCEPT !.element =
                               IF a.key = class_key
                               THEN push_classes(@, a.value)
                               ELSE insert_attribute(@, a.key, a.value)])
                  [] a.tag = "Err" ->
                       element_loop(inner, i + 1,
                           [acc EXCEPT !.warnings = Append(@, Display(a.error))])
                  [] OTHER -> [acc EXCEPT !.tag = "Panic"]
           [] pair.rule \in {"el_normal_end", "el_raw_text_end"} ->
                on_el_end(inner, i, acc)
           [] pair.rule \in {"el_dangling", "EOI"} ->
                element_loop(inner, i + 1, acc)
           [] OTHER ->
                [acc EXCEPT !.tag = "Err",
                     !.error = ParsingError("Failed to create element at rule: ",
                                            pair.rule)]

\* build_node_element without the test on the empty name
build_node_element_keeps_nameless(pair, warnings) ==
    LET r == element_loop(pair.inner, 1,
                 [tag |-> "Ok", element |-> DefaultElement(SpanOf(pair)),
                  warnings |-> warnings, error |-> ParsingError("", "")])
    IN  [tag |-> IF r.tag = "Ok" THEN "Some" ELSE r.tag, node |-> r.element,
         warnings |-> r.warnings, error |-> r.error]

\* The result is Ok(Some(node)), Ok(None) or Err(error), with the warnings
\* vector as the call left it.
build_node_element(pair, warnings) ==
    LET r == element_loop(pair.inner, 1,
                 [tag |-> "Ok", element |-> DefaultElement(SpanOf(pair)),
                  warnings |-> warnings, error |-> ParsingError("", "")])
    IN  CASE r.tag = "Ok" ->
               IF r.element.name # <<>>
               THEN [tag |-> "Some", node |-> r.element,
                     warnings |-> r.warnings, error |-> r.error]
               ELSE [tag |-> "None", node |-> r.element,
                     warnings |-> r.warnings, error |-> r.error]
          [] OTHER ->
               [tag |-> r.tag, node |-> r.element,
                warnings |-> r.warnings, error |-> r.error]

---------------------------------------------------------------------------
(* Dom::build_dom, first pass: one step per pair of the top-level sequence *)

NoError == ParsingError("", "")

\* Dom::default()
DefaultDom == [tree_type |-> "Empty", children |-> <<>>, warnings |-> <<>>]

\* on_doctype with the guard on Empty lost
on_doctype_unguarded(d) == [d EXCEPT !.tree_type = "Document"]

\* Rule::doctype arm
on_doctype(d) ==
    IF d.tree_type = "Empty" THEN [d EXCEPT !.tree_type = "Document"] ELSE d

\* on_node_element dropping the warning of a failed subtree
on_node_element_silent(d, r) ==
    CASE r.tag = "Some" ->
           [tree_type |-> IF d.tree_type = "Empty" THEN "DocumentFragment"
                          ELSE d.tree_type,
            children |-> Append(d.children, r.node),
            warnings |-> r.warnings]
      [] OTHER -> [d EXCEPT !.warnings = r.warnings]

\* Rule::node_element arm, given the result r of build_node_element
on_node_element(d, r) ==
    CASE r.tag = "Some" ->
           [tree_type |-> IF d.tree_type = "Empty" THEN "DocumentFragment"
                          ELSE d.tree_type,
            children |-> Append(d.children, r.node),
            warnings |-> r.warnings]
      [] r.tag = "None" -> [d EXCEPT !.warnings = r.warnings]
      [] OTHER -> [d EXCEPT !.warnings = Append(r.warnings, Display(r.error))]

\* on_node_text leaving the type to the arms of the other rules
on_node_text_keeps_type(d, pair) ==
    [d EXCEPT !.children = IF trim(pair.str) # <<>>
                           THEN Append(@, TextNode(pair.str))
                           ELSE @]

\* Rule::node_text arm: the type is set before the text is looked at
on_node_text(d, pair) ==
    [tree_type |-> IF d.tree_type = "Empty" THEN "DocumentFragment"
                   ELSE d.tree_type,
     children |-> IF trim(pair.str) # <<>>
                  THEN Append(d.children, TextNode(pair.str))
                  ELSE d.children,
     warnings |-> d.warnings]

\* on_node_comment inserting at the front instead of pushing at the back
on_node_comment_front(d, pair) ==
    [d EXCEPT !.children = <<CommentNode(InnerStr(pair.inner))>> \o @]

\* Rule::node_comment arm
on_node_comment(d, pair) ==
    [d EXCEPT !.children = Append(@, CommentNode(InnerStr(pair.inner)))]

---------------------------------------------------------------------------
(* The inputs: pairs as the grammar's rules shape them                     *)

S_html == <<"h", "t", "m", "l">>
S_Html == <<"H", "t", "m", "l">>
S_head == <<"h", "e", "a", "d">>
S_body == <<"b", "o", "d", "y">>
S_BODY == <<"B", "O", "D", "Y">>
S_div == <<"d", "i", "v">>
S_br == <<"b", "r">>
S_p == <<"p">>
S_id == <<"i", "d">>

RECURSIVE ConcatStr(_)
ConcatStr(pairs) ==
    IF pairs = <<>> THEN <<>> ELSE Head(pairs).str \o ConcatStr(Tail(pairs))

RECURSIVE ConcatAttrs(_)
ConcatAttrs(attrs) ==
    IF attrs = <<>> THEN <<>>
    ELSE <<" ">> \o Head(attrs).str \o ConcatAttrs(Tail(attrs))

\* key='value'
QuotedAttr(key, value) ==
    Pair("attr", key \o <<"=", "'">> \o value \o <<"'">>,
         <<Pair("attr_key", key, <<>>),
           Pair("attr_quoted", <<"'">> \o value \o <<"'">>,
                <<Pair("attr_value", value, <<>>)>>)>>)

\* key=value
NonQuotedAttr(key, value) ==
    Pair("attr", key \o <<"=">> \o value,
         <<Pair("attr_key", key, <<>>), Pair("attr_non_quoted", value, <<>>)>>)

\* key
BoolAttr(key) == Pair("attr", key, <<Pair("attr_key", key, <<>>)>>)

\* <name attrs>content</name>
NormalElement(name, attrs, content) ==
    Pair("node_element",
         <<"<">> \o name \o ConcatAttrs(attrs) \o <<">">> \o ConcatStr(content)
             \o <<"<", "/">> \o name \o <<">">>,
         <<Pair("el_name", name, <<>>)>> \o attrs \o content
             \o <<Pair("el_normal_end", <<"<", "/">> \o name \o <<">">>, <<>>)>>)

\* <name attrs> of a void name, <name attrs/> of any name
VoidElement(rule, name, attrs) ==
    Pair("node_element",
         <<"<">> \o name \o ConcatAttrs(attrs) \o <<"/", ">">>,
         <<Pair(rule, name, <<>>)>> \o attrs)

\* </name> with no element open
DanglingElement(name) ==
    Pair("node_element", <<"<", "/">> \o name \o <<">">>,
         <<Pair("el_dangling", <<"<", "/">> \o name \o <<">">>, <<>>)>>)

\* an element holding an inner pair of a rule build_node_element has no arm for
BrokenElement(name) ==
    Pair("node_element", <<"<">> \o name \o <<">">>,
         <<Pair("el_name", name, <<>>), Pair("doctype", <<>>, <<>>)>>)

TextPair(t) == Pair("node_text", t, <<>>)
\* <!--t-->
CommentPair(t) ==
    Pair("node_comment", <<"<", "!", "-", "-">> \o t \o <<"-", "-", ">">>,
         <<Pair("comment_body", t, <<>>)>>)
DoctypePair == Pair("doctype", <<"<", "!", "d", "o", "c", "t", "y", "p", "e", ">">>, <<>>)
EOIPair == Pair("EOI", <<>>, <<>>)

DivPair ==
    NormalElement(S_div,
        <<QuotedAttr(class_key, <<"a", " ", "b">>), NonQuotedAttr(S_id, <<"x">>)>>,
        <<NormalElement(S_p, <<>>, <<TextPair(<<"t", " ">>)>>),
          CommentPair(<<"c">>)>>)

\* an element whose first child fails to build, whose second child is an
\* end tag that closes nothing, and whose third child is <br/>
ParentOfBroken ==
    NormalElement(S_div, <<>>,
        <<BrokenElement(S_p), DanglingElement(S_p),
          VoidElement("el_void_name", S_br, <<>>)>>)

ElementPairs ==
    { NormalElement(S_html, <<>>, <<>>),
      NormalElement(S_Html, <<BoolAttr(S_id)>>, <<>>),
      NormalElement(S_head, <<>>, <<>>),
      NormalElement(S_body, <<>>, <<>>),
      NormalElement(S_BODY, <<>>, <<>>),
      DivPair,
      VoidElement("el_void_name", S_br, <<>>),
      DanglingElement(S_p),
      BrokenElement(S_div),
      ParentOfBroken }

TextPairs == { TextPair(<<" ">>), TextPair(<<" ", "a">>) }

CommentPairs == { CommentPair(<<"x">>), CommentPair(<<"y">>) }

\* a rule the top-level loops have no arm for
UnknownPairs == { BoolAttr(S_id) }

\* The longest top-level sequence the model feeds to build_dom
MaxPairs == 3

---------------------------------------------------------------------------
(* Dom::build_dom as a state machine                                       *)
(* pc: "pairs"        inside `for pair in pairs`                           *)
(*     "validate"     at `match dom.tree_type`                             *)
(*     "val_empty", "val_document", "val_fragment"  inside that arm        *)
(*     "done"         Ok(dom) returned                                     *)
(*     "err"          Err(error) returned                                  *)
(*     "panic"        unreachable!() or expect() hit                       *)

InitDom ==
    /\ pc = "pairs"
    /\ consumed = <<>>
    /\ dom = DefaultDom
    /\ vi = 1
    /\ seen_html = FALSE
    /\ seen_elements = FALSE
    /\ error = NoError

TakePair(pair) ==
    /\ pc = "pairs"
    /\ Len(consumed) < MaxPairs
    /\ consumed' = Append(consumed, pair)
    /\ UNCHANGED <<vi, seen_html, seen_elements, error, itVars, rtVars, elVars, fmtVars, jsonVars, nodesVars>>

Doctype ==
    /\ TakePair(DoctypePair)
    /\ dom' = on_doctype(dom)
    /\ pc' = pc

NodeElement ==
    \E pair \in ElementPairs :
        /\ TakePair(pair)
        /\ LET r == build_node_element(pair, dom.warnings) IN
           IF r.tag = "Panic"
           THEN /\ pc' = "panic"
                /\ dom' = [dom EXCEPT !.warnings = r.warnings]
           ELSE /\ pc' = pc
                /\ dom' = on_node_element(dom, r)

NodeText ==
    \E pair \in TextPairs :
        /\ TakePair(pair)
        /\ dom' = on_node_text(dom, pair)
        /\ pc' = pc

NodeComment ==
    \E pair \in CommentPairs :
        /\ TakePair(pair)
        /\ dom' = on_node_comment(dom, pair)
        /\ pc' = pc

EndOfInput ==
    /\ TakePair(EOIPair)
    /\ UNCHANGED <<pc, dom>>

UnknownRule ==
    \E pair \in UnknownPairs :
        /\ TakePair(pair)
        /\ pc' = "panic"
        /\ UNCHANGED dom

\* the pairs iterator is exhausted: on to `match dom.tree_type`
PairsExhausted ==
    /\ pc = "pairs"
    /\ pc' = "validate"
    /\ UNCHANGED <<consumed, dom, vi, seen_html, seen_elements, error, itVars, rtVars, elVars, fmtVars, jsonVars, nodesVars>>

\* Node::Element(el) if el.name.to_lowercase() == "html"
is_html(node) == node.kind = "Element" /\ to_lowercase(node.name) = S_html

\* the filter(..).count() of the Document arm
count_html(children) == Cardinality({i \in DOMAIN children : is_html(children[i])})

\* el.name == "head" || el.name == "body"
is_head_or_body(el) == el.name = S_head \/ el.name = S_body

\* `match dom.tree_type`: the arm is chosen once, by the type the first pass left
MatchTreeType ==
    /\ pc = "validate"
    /\ pc' = CASE dom.tree_type = "Empty" -> "val_empty"
               [] dom.tree_type = "Document" -> "val_document"
               [] OTHER -> "val_fragment"
    /\ vi' = 1
    /\ UNCHANGED <<consumed, dom, seen_html, seen_elements, error, itVars, rtVars, elVars, fmtVars, jsonVars, nodesVars>>

\* empty_step without the reclassification of a comment-only tree
empty_step_no_fixup(d, node) ==
    IF node.kind = "Comment"
    THEN [pc |-> "val_empty", tree_type |-> d.tree_type]
    ELSE [pc |-> "panic", tree_type |-> d.tree_type]

\* DomVariant::Empty arm, one iteration of `for node in &dom.children`
empty_step(d, node) ==
    IF node.kind = "Comment"
    THEN [pc |-> "val_empty", tree_type |-> "DocumentFragment"]
    ELSE [pc |-> "panic", tree_type |-> d.tree_type]

ValidateEmpty ==
    /\ pc = "val_empty"
    /\ vi <= Len(dom.children)
    /\ LET r == empty_step(dom, dom.children[vi]) IN
       /\ pc' = r.pc
       /\ dom' = [dom EXCEPT !.tree_type = r.tree_type]
    /\ vi' = vi + 1
    /\ UNCHANGED <<consumed, seen_html, seen_elements, error, itVars, rtVars, elVars, fmtVars, jsonVars, nodesVars>>

\* document_check with the count compared off by one
document_check_off_by_one(d) ==
    IF count_html(d.children) > 2
    THEN [pc |-> "err", error |-> ParsingError("Document with multiple HTML tags", "")]
    ELSE [pc |-> "done", error |-> NoError]

\* DomVariant::Document arm
document_check(d) ==
    IF count_html(d.children) > 1
    THEN [pc |-> "err", error |-> ParsingError("Document with multiple HTML tags", "")]
    ELSE [pc |-> "done", error |-> NoError]

ValidateDocument ==
    /\ pc = "val_document"
    /\ LET r == document_check(dom) IN
       /\ pc' = r.pc
       /\ error' = r.error
    /\ UNCHANGED <<consumed, dom, vi, seen_html, seen_elements, itVars, rtVars, elVars, fmtVars, jsonVars, nodesVars>>

\* fragment_step that accepts the <html> element without reclassifying
fragment_step_no_upgrade(st, node) ==
    CASE node.kind = "Element" /\ to_lowercase(node.name) # S_html ->
           IF is_head_or_body(node)
           THEN [st EXCEPT !.pc = "err",
                    !.error = ParsingError("A document fragment should not include ",
                                           node.name)]
           ELSE [st EXCEPT !.seen_elements = TRUE]
      [] node.kind = "Element" /\ to_lowercase(node.name) = S_html ->
           IF st.seen_html \/ st.seen_elements
           THEN [st EXCEPT !.pc = "err",
                    !.error = ParsingError("A document fragment should not include ",
                                           node.name)]
           ELSE [st EXCEPT !.seen_html = TRUE]
      [] OTHER -> st

\* fragment_step that forgets to record the other elements it has passed
fragment_step_no_seen_elements(st, node) ==
    CASE node.kind = "Element" /\ to_lowercase(node.name) # S_html ->
           IF is_head_or_body(node)
           THEN [st EXCEPT !.pc = "err",
                    !.error = ParsingError("A document fragment should not include ",
                                           node.name)]
           ELSE st
      [] node.kind = "Element" /\ to_lowercase(node.name) = S_html ->
           IF st.seen_html \/ st.seen_elements
           THEN [st EXCEPT !.pc = "err",
                    !.error = ParsingError("A document fragment should not include ",
                                           node.name)]
           ELSE [st EXCEPT !.tree_type = "Document", !.seen_html = TRUE]
      [] OTHER -> st

\* fragment_step that lets a top-level head pass and rejects body alone
fragment_step_passes_head(st, node) ==
    CASE node.kind = "Element" /\ to_lowercase(node.name) # S_html ->
           IF node.name = S_body
           THEN [st EXCEPT !.pc = "err",
                    !.error = ParsingError("A document fragment should not include ",
                                           node.name)]
           ELSE [st EXCEPT !.seen_elements = TRUE]
      [] node.kind = "Element" /\ to_lowercase(node.name) = S_html ->
           IF st.seen_html \/ st.seen_elements
           THEN [st EXCEPT !.pc = "err",
                    !.error = ParsingError("A document fragment should not include ",
                                           node.name)]
           ELSE [st EXCEPT !.tree_type = "Document", !.seen_html = TRUE]
      [] OTHER -> st

\* DomVariant::DocumentFragment arm, one iteration of `for node in &dom.children`
\* st = [pc, tree_type, seen_html, seen_elements, error]
fragment_step(st, node) ==
    CASE node.kind = "Element" /\ to_lowercase(node.name) # S_html ->
           IF is_head_or_body(node)
           THEN [st EXCEPT !.pc = "err",
                    !.error = ParsingError("A document fragment should not include ",
                                           node.name)]
           ELSE [st EXCEPT !.seen_elements = TRUE]
      [] node.kind = "Element" /\ to_lowercase(node.name) = S_html ->
           IF st.seen_html \/ st.seen_elements
           THEN [st EXCEPT !.pc = "err",
                    !.error = ParsingError("A document fragment should not include ",
                                           node.name)]
           ELSE [st EXCEPT !.tree_type = "Document", !.seen_html = TRUE]
      [] OTHER -> st

ValidateFragment ==
    /\ pc = "val_fragment"
    /\ vi <= Len(dom.children)
    /\ LET r == fragment_step([pc |-> pc, tree_type |-> dom.tree_type,
                               seen_html |-> seen_html,
                               seen_elements |-> seen_elements, error |-> error],
                              dom.children[vi]) IN
       /\ pc' = r.pc
       /\ dom' = [dom EXCEPT !.tree_type = r.tree_type]
       /\ seen_html' = r.seen_html
       /\ seen_elements' = r.seen_elements
       /\ error' = r.error
    /\ vi' = vi + 1
    /\ UNCHANGED <<consumed, itVars, rtVars, elVars, fmtVars, jsonVars, nodesVars>>

\* the loop of the Empty or DocumentFragment arm ran out: Ok(dom)
ReturnOk ==
    /\ pc \in {"val_empty", "val_fragment"}
    /\ vi > Len(dom.children)
    /\ pc' = "done"
    /\ UNCHANGED <<consumed, dom, vi, seen_html, seen_elements, error, itVars, rtVars, elVars, fmtVars, jsonVars, nodesVars>>

NextDom ==
    \/ Doctype
    \/ NodeElement
    \/ NodeText
    \/ NodeComment
    \/ EndOfInput
    \/ UnknownRule
    \/ PairsExhausted
    \/ MatchTreeType
    \/ ValidateEmpty
    \/ ValidateDocument
    \/ ValidateFragment
    \/ ReturnOk

\* no iterator is made while build_dom runs
InitIterIdle ==
    /\ it_root = TextNode(<<>>)
    /\ it_node = <<>>
    /\ it_index = <<>>
    /\ it_last = [some |-> FALSE, path |-> <<>>]
    /\ it_out = <<>>
    /\ it_calls = 0

\* what build_dom returns: Ok(dom), Err(error), or a panic ("None": no call made)
Result(tag, d, e) == [tag |-> tag, dom |-> d, error |-> e]

\* nothing is rendered while build_dom runs
InitRtIdle ==
    /\ rt_pc = "idle"
    /\ rt_input = <<>>
    /\ rt_dom = Result("None", DefaultDom, NoError)
    /\ rt_opts = [double_quot |-> FALSE, new_lines |-> FALSE, max_len |-> 0, tab_size |-> 0]
    /\ rt_text = <<>>
    /\ rt_dom2 = Result("None", DefaultDom, NoError)

\* no element is being built on its own
InitElIdle ==
    /\ el_pc = "idle"
    /\ el_pair = EOIPair
    /\ el_result = [tag |-> "None"]

\* no node is being rendered on its own
InitFmtIdle ==
    /\ f_pc = "idle"
    /\ f_inserts = <<>>
    /\ f_node = TextNode(<<>>)
    /\ f_opts = [double_quot |-> FALSE, new_lines |-> FALSE, max_len |-> 0, tab_size |-> 0]
    /\ f_depth = 0
    /\ f_text = <<>>

\* nothing is exported
InitJsonIdle ==
    /\ j_pc = "idle"
    /\ j_dom = DefaultDom
    /\ j_node = TextNode(<<>>)
    /\ j_json = JNull
    /\ j_back = [tag |-> "None"]

\* build_nodes is not called
InitNodesIdle ==
    /\ n_pairs = <<>>
    /\ n_dom = Result("Idle", DefaultDom, NoError)
    /\ n_nodes = [tag |-> "Idle", nodes |-> <<>>]

Init == InitDom /\ InitIterIdle /\ InitRtIdle /\ InitElIdle /\ InitFmtIdle /\ InitJsonIdle /\ InitNodesIdle

Spec == Init /\ [][NextDom]_vars

---------------------------------------------------------------------------
(* Properties of build_dom                                                 *)

\* What the properties say about the input and the tree, stated on their own
\* terms and not through the operators of the validator.
IsElement(node) == node.kind = "Element"
NameIs(node, lower) == IsElement(node) /\ to_lowercase(node.name) = lower
HtmlAt(children) == {i \in DOMAIN children : NameIs(children[i], S_html)}
ElementAt(children) == {i \in DOMAIN children : IsElement(children[i])}
RuleAt(seq, rule) == {i \in DOMAIN seq : seq[i].rule = rule}
NoDoctype(seq) == RuleAt(seq, "doctype") = {}

\* The order the grammar gives the top-level pairs: comments, then at most
\* one doctype, then nodes, then EOI; and only the rules build_dom has arms for.
GrammarOrder(seq) ==
    /\ \A i \in DOMAIN seq :
          seq[i].rule \in {"doctype", "node_element", "node_text", "node_comment", "EOI"}
    /\ \A i \in RuleAt(seq, "EOI") : i = Len(seq)
    /\ \A i \in RuleAt(seq, "doctype") :
          \A j \in 1..(i - 1) : seq[j].rule = "node_comment"

\* C3: a Dom returned with tree_type Empty has no children, and the empty
\* sequence of pairs gives tree_type Empty with no children.
C3_EmptyHasNoChildren ==
    /\ (pc = "done" /\ dom.tree_type = "Empty") => dom.children = <<>>
    /\ (pc \in {"done", "err", "panic"} /\ consumed = <<>>) =>
          (pc = "done" /\ dom.tree_type = "Empty" /\ dom.children = <<>>)

C3_Witness ==
    /\ pc = "done"
    /\ dom.tree_type = "Empty"
    /\ RuleAt(consumed, "node_element") # {}

\* C4: a sequence of node_comment pairs only (at least one, an EOI allowed at
\* the end) gives Ok with tree_type DocumentFragment and one Comment child
\* per pair, in the order of the pairs.
CommentsOnly(seq) ==
    /\ seq # <<>>
    /\ seq[1].rule = "node_comment"
    /\ \A i \in DOMAIN seq :
          seq[i].rule = "node_comment" \/ (seq[i].rule = "EOI" /\ i = Len(seq))

CommentsOf(seq) ==
    LET n == Cardinality(RuleAt(seq, "node_comment"))
    IN  [i \in 1..n |-> CommentNode(seq[i].inner[1].str)]

C5_DocumentHasOneHtml ==
    /\ (pc = "done" /\ dom.tree_type = "Document") =>
          Cardinality(HtmlAt(dom.children)) <= 1
    /\ (pc \in {"done", "err"} /\ Cardinality(HtmlAt(dom.children)) >= 2) =>
          pc = "err"

C5_Witness ==
    /\ pc = "err"
    /\ ~NoDoctype(consumed)
    /\ dom.tree_type = "Document"
    /\ Cardinality(HtmlAt(dom.children)) >= 2

\* C6: with no doctype pair seen, a top-level element named head or body,
\* ignoring case, makes build_dom return Err: no Dom is returned holding one.
C6_FragmentRejectsHeadBody ==
    (pc = "done" /\ NoDoctype(consumed) /\ GrammarOrder(consumed)) =>
        \A i \in DOMAIN dom.children :
            /\ ~NameIs(dom.children[i], S_head)
            /\ ~NameIs(dom.children[i], S_body)

\* C7: with no doctype pair seen and html the first top-level element, a
\* build that returns Ok returns tree_type Document; and no Dom returned with
\* tree_type DocumentFragment holds a top-level html element.
FirstElementIsHtml(children) ==
    /\ ElementAt(children) # {}
    /\ \E i \in HtmlAt(children) : \A j \in ElementAt(children) : i <= j

C7_HtmlFirstIsDocument ==
    /\ (pc = "done" /\ NoDoctype(consumed) /\ FirstElementIsHtml(dom.children)) =>
          dom.tree_type = "Document"
    /\ (pc = "done" /\ dom.tree_type = "DocumentFragment") =>
          HtmlAt(dom.children) = {}

C7_Witness ==
    /\ pc = "done"
    /\ NoDoctype(consumed)
    /\ FirstElementIsHtml(dom.children)
    /\ ~IsElement(dom.children[1])
    /\ dom.tree_type = "Document"

\* C8: with no doctype pair seen, an html element that stands after another
\* top-level element (html or not) makes build_dom return Err.
HtmlAfterElement(children) ==
    \E j \in HtmlAt(children) : \E i \in ElementAt(children) : i < j

C8_LateHtmlIsError ==
    (pc \in {"done", "err"} /\ NoDoctype(consumed) /\ HtmlAfterElement(dom.children)) =>
        pc = "err"

C8_Witness ==
    /\ pc = "err"
    /\ NoDoctype(consumed)
    /\ HtmlAfterElement(dom.children)
    /\ Cardinality(HtmlAt(dom.children)) = 1
    /\ \A i \in DOMAIN dom.children :
          ~NameIs(dom.children[i], S_head) /\ ~NameIs(dom.children[i], S_body)

\* C9: a Dom returned with tree_type Document has no top-level element with
\* a name other than html (ignoring case).
C9_DocumentHasOnlyHtml ==
    (pc = "done" /\ dom.tree_type = "Document" /\ GrammarOrder(consumed)) =>
        ElementAt(dom.children) \subseteq HtmlAt(dom.children)

\* C10: tree_type starts Empty and moves only Empty -> Document (on a doctype
\* pair), Empty -> DocumentFragment, DocumentFragment -> Document (in the
\* validation); Document never changes; a doctype pair met when tree_type is
\* not Empty leaves it as it is.
TookDoctype == consumed' = Append(consumed, DoctypePair)

TreeTypeStep ==
    /\ \/ dom'.tree_type = dom.tree_type
       \/ dom.tree_type = "Empty" /\ dom'.tree_type = "Document" /\ TookDoctype
       \/ dom.tree_type = "Empty" /\ dom'.tree_type = "DocumentFragment"
       \/ /\ dom.tree_type = "DocumentFragment"
          /\ dom'.tree_type = "Document"
          /\ pc = "val_fragment"
    /\ dom.tree_type = "Document" => dom'.tree_type = "Document"
    /\ (TookDoctype /\ dom.tree_type # "Empty") => dom'.tree_type = dom.tree_type

C10_TreeTypeTransitions ==
    /\ dom.tree_type = "Empty"
    /\ [][TreeTypeStep]_vars

C10_Witness ==
    /\ pc = "done"
    /\ dom.tree_type = "Document"
    /\ Len(consumed) >= 2
    /\ consumed[1].rule = "node_element"
    /\ consumed[2].rule = "doctype"

\* C11: a top-level node_text pair of whitespace only leaves tree_type and
\* children as they are; one with other text sets tree_type to
\* DocumentFragment only if it is still Empty and appends a Text node holding
\* the untrimmed text.
TookText(pair) == pair \in TextPairs /\ consumed' = Append(consumed, pair)

TextStep(pair) ==
    IF trim(pair.str) = <<>>
    THEN dom'.tree_type = dom.tree_type /\ dom'.children = dom.children
    ELSE /\ dom'.tree_type = (IF dom.tree_type = "Empty" THEN "DocumentFragment"
                              ELSE dom.tree_type)
         /\ dom'.children = Append(dom.children, TextNode(pair.str))

C11_TextEvent ==
    [][\A pair \in TextPairs : TookText(pair) => TextStep(pair)]_vars

\* C12: an element subtree that fails to build (an inner pair of a rule
\* build_node_element has no arm for) is not fatal.  At top level the step
\* appends one warning, adds no child and stays in the loop over the pairs;
\* inside an element the parent gets one warning, no child for the failed
\* subtree, and the sibling that follows it.  Over a whole run the children
\* are the nodes of the pairs that did not fail, and the run can end in Ok.
AllowedInner ==
    { "node_element", "el_raw_text", "node_text", "el_raw_text_content",
      "node_comment", "el_name", "el_void_name", "el_raw_text_name", "attr",
      "el_normal_end", "el_raw_text_end", "el_dangling", "EOI" }

\* the element pair itself holds a pair of a rule with no arm
FailsToBuild(pair) ==
    /\ pair.rule = "node_element"
    /\ \E i \in DOMAIN pair.inner : pair.inner[i].rule \notin AllowedInner

HasName(pair) ==
    \E i \in DOMAIN pair.inner :
        pair.inner[i].rule \in {"el_name", "el_void_name", "el_raw_text_name"}

\* the top-level pair gives a child of the Dom
ProducesNode(pair) ==
    CASE pair.rule = "node_element" -> HasName(pair) /\ ~FailsToBuild(pair)
      [] pair.rule = "node_text" -> trim(pair.str) # <<>>
      [] pair.rule = "node_comment" -> TRUE
      [] OTHER -> FALSE

\* the subtrees that fail to build, at any depth of a pair
RECURSIVE FailedSubtrees(_)
RECURSIVE FailedSubtreesIn(_, _)
FailedSubtrees(pair) ==
    IF pair.rule # "node_element" THEN 0
    ELSE (IF FailsToBuild(pair) THEN 1 ELSE 0) + FailedSubtreesIn(pair.inner, 1)
FailedSubtreesIn(inner, i) ==
    IF i > Len(inner) THEN 0
    ELSE FailedSubtrees(inner[i]) + FailedSubtreesIn(inner, i + 1)

TookPair(pair) == consumed' = Append(consumed, pair)

FailedSubtreeStep ==
    /\ \A pair \in ElementPairs :
          (TookPair(pair) /\ FailsToBuild(pair)) =>
              /\ Len(dom'.warnings) = Len(dom.warnings) + 1
              /\ dom'.children = dom.children
              /\ dom'.tree_type = dom.tree_type
              /\ pc' = "pairs"
    /\ TookPair(ParentOfBroken) =>
          /\ Len(dom'.warnings) = Len(dom.warnings) + 1
          /\ Len(dom'.children) = Len(dom.children) + 1
          /\ LET el == dom'.children[Len(dom'.children)] IN
             /\ el.kind = "Element" /\ el.name = S_div /\ el.variant = "Normal"
             /\ Len(el.children) = 1
             /\ el.children[1].kind = "Element" /\ el.children[1].name = S_br
          /\ pc' = "pairs"

ChildrenOfUnfailedPairs ==
    pc # "panic" =>
        /\ Len(dom.children) =
              Cardinality({i \in DOMAIN consumed : ProducesNode(consumed[i])})
        /\ Len(dom.warnings) = FailedSubtreesIn(consumed, 1)

C12_FailedSubtreeIsWarning ==
    /\ []ChildrenOfUnfailedPairs
    /\ [][FailedSubtreeStep]_vars

\* a run that met a failed subtree first, then a sibling, and returned Ok
C12_Witness ==
    /\ pc = "done"
    /\ Len(consumed) >= 2
    /\ FailsToBuild(consumed[1])
    /\ consumed[2] = ParentOfBroken
    /\ Len(dom.children) = 1
    /\ Len(dom.warnings) = 2

\* C13: an element pair with no name-bearing pair inside gives no node and no
\* warning, and at top level leaves tree_type as it is; no Element with an
\* empty name occurs at any depth of the tree.
RECURSIVE NoEmptyName(_)
NoEmptyName(node) ==
    node.kind = "Element" =>
        /\ node.name # <<>>
        /\ \A i \in DOMAIN node.children : NoEmptyName(node.children[i])

NamelessStep ==
    \A pair \in ElementPairs :
        (TookPair(pair) /\ ~HasName(pair) /\ ~FailsToBuild(pair)) =>
            /\ dom'.children = dom.children
            /\ dom'.warnings = dom.warnings
            /\ dom'.tree_type = dom.tree_type

---------------------------------------------------------------------------
(* Node::build_node_element on its own: one element pair, its attr pairs   *)
(* drawn from AttrPairs                                                     *)

S_Class == <<"C", "l", "a", "s", "s">>

\* an attr pair build_attribute fails on: attr_quoted without an attr_value
FailingAttr(key) ==
    Pair("attr", key \o <<"=", "'", "'">>,
         <<Pair("attr_key", key, <<>>),
           Pair("attr_quoted", <<"'", "'">>, <<Pair("attr_key", <<>>, <<>>)>>)>>)

AttrPairs ==
    { QuotedAttr(S_id, <<"1">>),
      NonQuotedAttr(S_id, <<"2">>),
      BoolAttr(S_id),
      FailingAttr(S_id),
      QuotedAttr(S_Class, <<"c">>),
      QuotedAttr(class_key, <<"a", " ", "b">>),
      QuotedAttr(class_key, <<" ", "b", " ", " ", "a", " ">>),
      BoolAttr(class_key) }

\* The most attr pairs of one element
MaxAttrs == 3

RECURSIVE AttrSeqs(_)
AttrSeqs(n) ==
    IF n = 0 THEN { <<>> }
    ELSE AttrSeqs(n - 1) \cup { Append(a, p) : a \in AttrSeqs(n - 1), p \in AttrPairs }

InitElement ==
    /\ InitDom
    /\ InitNodesIdle
    /\ InitJsonIdle
    /\ InitFmtIdle
    /\ InitIterIdle
    /\ InitRtIdle
    /\ el_pc = "input"
    /\ el_pair \in { VoidElement("el_name", S_div, attrs) : attrs \in AttrSeqs(MaxAttrs) }
    /\ el_result = [tag |-> "None"]

\* Node::build_node_element(pair, &mut warnings), warnings empty at the call
BuildElement ==
    /\ el_pc = "input"
    /\ el_result' = build_node_element(el_pair, <<>>)
    /\ el_pc' = "built"
    /\ UNCHANGED <<el_pair, domVars, itVars, rtVars, fmtVars, jsonVars, nodesVars>>

NextElement == BuildElement

SpecElement == InitElement /\ [][NextElement]_vars

\* What the attr pairs of el_pair say, read off the pairs themselves
AttrsOf(pair) == SelectSeq(pair.inner, LAMBDA p : p.rule = "attr")
AttrParses(attr) ==
    \A i \in DOMAIN attr.inner :
        /\ attr.inner[i].rule \in {"attr_key", "attr_non_quoted", "attr_quoted"}
        /\ attr.inner[i].rule = "attr_quoted" =>
              /\ attr.inner[i].inner # <<>>
              /\ attr.inner[i].inner[1].rule = "attr_value"
AttrKey(attr) == trim(attr.inner[1].str)
AttrValue(attr) ==
    IF Len(attr.inner) < 2 THEN None
    ELSE IF attr.inner[2].rule = "attr_quoted" THEN Some(attr.inner[2].inner[1].str)
    ELSE Some(trim(attr.inner[2].str))

\* the indices of the parsed attr pairs of a key
WithKey(attrs, key) ==
    {i \in DOMAIN attrs : AttrParses(attrs[i]) /\ AttrKey(attrs[i]) = key}

Greatest(S) == CHOOSE i \in S : \A j \in S : j <= i

TokenStarts(v) ==
    {i \in DOMAIN v : ~IsWhitespace(v[i]) /\ (i = 1 \/ IsWhitespace(v[i - 1]))}
TokenAt(v, i) ==
    LET ends == {j \in i..Len(v) : j = Len(v) \/ IsWhitespace(v[j + 1])}
    IN  SubSeq(v, i, CHOOSE j \in ends : \A k \in ends : j <= k)
RECURSIVE TokensFrom(_, _)
TokensFrom(v, starts) ==
    IF starts = {} THEN <<>>
    ELSE LET i == CHOOSE x \in starts : \A y \in starts : x <= y
         IN  <<TokenAt(v, i)>> \o TokensFrom(v, starts \ {i})
Tokens(v) == TokensFrom(v, TokenStarts(v))

\* the classes the attr pairs give, from attr pair i on
RECURSIVE ClassesOf(_, _)
ClassesOf(attrs, i) ==
    IF i > Len(attrs) THEN <<>>
    ELSE (IF AttrParses(attrs[i]) /\ AttrKey(attrs[i]) = class_key
             /\ AttrValue(attrs[i]).some
          THEN Tokens(AttrValue(attrs[i]).v)
          ELSE <<>>) \o ClassesOf(attrs, i + 1)

\* C15: "class" is never a key of attributes; classes holds the non-empty
\* whitespace-separated tokens of every class attribute's value, in order,
\* duplicates kept, over all class attributes; a class attribute with no
\* value adds nothing.
C15_ClassesAreSplit ==
    el_pc = "built" =>
        /\ el_result.tag = "Some"
        /\ class_key \notin DOMAIN el_result.node.attributes
        /\ el_result.node.classes = ClassesOf(AttrsOf(el_pair), 1)

\* class='a b' class class=' b  a ': the tokens of both values, b and a twice
C15_Witness ==
    /\ el_pc = "built"
    /\ AttrsOf(el_pair) = <<QuotedAttr(class_key, <<"a", " ", "b">>), BoolAttr(class_key),
                            QuotedAttr(class_key, <<" ", "b", " ", " ", "a", " ">>)>>
    /\ el_result.node.classes = <<<<"a">>, <<"b">>, <<"b">>, <<"a">>>>

---------------------------------------------------------------------------
(* Node::build_node_element on its own: one element pair, its inner pairs  *)
(* drawn from InnerEvents in any order, end events in any place            *)

EndRules == { "el_normal_end", "el_raw_text_end" }

InnerEvents ==
    { Pair("el_name", S_p, <<>>),
      Pair("el_raw_text_name", S_div, <<>>),
      BoolAttr(S_id),
      QuotedAttr(class_key, <<"a">>),
      FailingAttr(S_id),
      TextPair(<<"t">>),
      CommentPair(<<"c">>),
      VoidElement("el_void_name", S_br, <<>>),
      BrokenElement(S_p),
      DoctypePair,
      Pair("el_normal_end", <<"<", "/", "p", ">">>, <<>>),
      Pair("el_raw_text_end", <<"<", "/", "d", "i", "v", ">">>, <<>>) }

\* The most inner pairs of one element
MaxInner == 3

RECURSIVE InnerSeqs(_)
InnerSeqs(n) ==
    IF n = 0 THEN { <<>> }
    ELSE InnerSeqs(n - 1) \cup { Append(a, p) : a \in InnerSeqs(n - 1), p \in InnerEvents }

InitInner ==
    /\ InitDom
    /\ InitNodesIdle
    /\ InitJsonIdle
    /\ InitFmtIdle
    /\ InitIterIdle
    /\ InitRtIdle
    /\ el_pc = "input"
    /\ el_pair \in { Pair("node_element", ConcatStr(inner), inner) :
                        inner \in InnerSeqs(MaxInner) }
    /\ el_result = [tag |-> "None"]

SpecInner == InitInner /\ [][NextElement]_vars

\* the index of the first end event of the inner pairs, 0 when there is none
FirstEnd(inner) ==
    LET ends == {i \in DOMAIN inner : inner[i].rule \in EndRules} IN
    IF ends = {} THEN 0 ELSE CHOOSE i \in ends : \A j \in ends : i <= j

\* the inner pairs in front of the first end event; all of them without one
BeforeEnd(inner) ==
    IF FirstEnd(inner) = 0 THEN inner ELSE SubSeq(inner, 1, FirstEnd(inner) - 1)

NameRules == {"el_name", "el_void_name", "el_raw_text_name"}

\* the text of the last name-bearing pair of a sequence, empty without one
LastName(seq) ==
    LET names == {i \in DOMAIN seq : seq[i].rule \in NameRules} IN
    IF names = {} THEN <<>>
    ELSE seq[CHOOSE i \in names : \A j \in names : j <= i].str

\* the warnings the pairs of a sequence leave: one per attr that fails to
\* parse, one per subtree that fails to build
WarningsOf(seq) ==
    Cardinality({i \in DOMAIN seq : seq[i].rule = "attr" /\ ~AttrParses(seq[i])})
        + FailedSubtreesIn(seq, 1)

\* C21: the first el_normal_end or el_raw_text_end event sets the variant to
\* Normal and ends the processing of the element: the result is the result
\* of the same pair cut after that event, so no later inner event adds a
\* child, an attribute, a class, a name or a warning, or makes the element
\* fail.  The name, the children, the warnings and the failure are those of
\* the events in front of the end event.  An element with no end event keeps
\* the variant Void, with the children it collected.
C21_EndEventStops ==
    el_pc = "built" =>
        LET inner == el_pair.inner
            k == FirstEnd(inner)
            seen == BeforeEnd(inner)
            cut == Pair(el_pair.rule, el_pair.str, SubSeq(inner, 1, k))
            fails == \E i \in DOMAIN seen : seen[i].rule \notin AllowedInner
        IN  /\ k > 0 => el_result = build_node_element(cut, <<>>)
            /\ el_result.tag = "Err" <=> fails
            /\ ~fails =>
                  /\ el_result.tag = "Some" <=> LastName(seen) # <<>>
                  /\ el_result.node.name = LastName(seen)
                  /\ el_result.node.variant = IF k > 0 THEN "Normal" ELSE "Void"
                  /\ Len(el_result.node.children) =
                        Cardinality({i \in DOMAIN seen : ProducesNode(seen[i])})
                  /\ Len(el_result.warnings) = WarningsOf(seen)

\* an element built from a name, an end event, and after it a pair of a rule
\* build_node_element has no arm for
C21_Witness ==
    /\ el_pc = "built"
    /\ Len(el_pair.inner) = 3
    /\ el_pair.inner[1].rule = "el_name"
    /\ el_pair.inner[2].rule = "el_normal_end"
    /\ el_pair.inner[3] = DoctypePair
    /\ el_result.tag = "Some"
    /\ el_result.node.variant = "Normal"
    /\ el_result.node.children = <<>>

\* the top-level child at index i breaks a rule of the fragment validation:
\* an element named head or body, or an html element that has an element in
\* front of it
Violates(children, i) ==
    /\ children[i].kind = "Element"
    /\ \/ children[i].name \in {S_head, S_body}
       \/ /\ to_lowercase(children[i].name) = S_html
          /\ \E j \in 1..(i - 1) : children[j].kind = "Element"

\* the index of the first child that breaks a rule, 0 when none does
FirstViolation(children) ==
    LET bad == {i \in DOMAIN children : Violates(children, i)} IN
    IF bad = {} THEN 0 ELSE CHOOSE i \in bad : \A j \in bad : i <= j

FragmentMsg == "A document fragment should not include "

\* the fragment validation returned Err: at the first child that breaks a
\* rule, naming it, with no child behind it looked at
FragmentFailed ==
    (pc = "err" /\ error.msg = FragmentMsg) =>
        LET v == FirstViolation(dom.children) IN
        /\ v > 0
        /\ error.arg = dom.children[v].name
        /\ vi = v + 1

FragmentStep ==
    /\ (pc = "val_fragment" /\ pc' = "err") =>
          /\ vi = FirstViolation(dom.children)
          /\ error' = ParsingError(FragmentMsg, dom.children[vi].name)
    /\ (pc = "val_fragment" /\ pc' = "done") => FirstViolation(dom.children) = 0
    /\ pc # "err"

InEmptyArm == pc = "val_empty" \/ (pc = "validate" /\ dom.tree_type = "Empty")

\* C27: over the top-level pairs of the rules build_dom has an arm for
\* (doctype, node_element, node_text, node_comment, EOI), when validation
\* starts with tree_type Empty every child of the Dom is a Comment; the loop
\* of the Empty arm never takes its unreachable!() branch.
C27_EmptyArmMeetsCommentsOnly ==
    /\ [](InEmptyArm => \A i \in DOMAIN dom.children : dom.children[i].kind = "Comment")
    /\ [][pc = "val_empty" => pc' # "panic"]_vars

\* the Empty arm has walked two comments; among the pairs was an element
\* pair that gave no node
C27_Witness ==
    /\ pc = "val_empty"
    /\ Len(dom.children) = 2
    /\ vi = 3
    /\ dom.tree_type = "DocumentFragment"
    /\ \E i \in DOMAIN consumed : consumed[i].rule = "node_element"

---------------------------------------------------------------------------
(* NodeIntoIterator                                                        *)
(* A &Node is the path of child indices (from 0, as the code counts) that  *)
(* leads to it from the node into_iter was called on.                      *)

\* The most nodes a tree handed to into_iter has
MaxNodes == 5

LeafNodes ==
    { TextNode(<<"a">>), CommentNode(<<"c">>),
      ElementNode(S_br, "Void", EmptyMap, <<>>, <<>>, DefaultSpan) }

\* TreesOfSize(n): the trees of exactly n nodes; ForestsOfSize(n): the child
\* sequences of n nodes in all.
RECURSIVE TreesOfSize(_)
RECURSIVE ForestsOfSize(_)

TreesOfSize(n) ==
    IF n = 1 THEN LeafNodes
    ELSE { ElementNode(S_div, "Normal", EmptyMap, <<>>, f, DefaultSpan) :
             f \in ForestsOfSize(n - 1) }

ForestsOfSize(n) ==
    IF n = 0 THEN { <<>> }
    ELSE UNION { { <<t>> \o f : t \in TreesOfSize(k), f \in ForestsOfSize(n - k) } :
                 k \in 1..n }

Trees == UNION { TreesOfSize(n) : n \in 1..MaxNodes }

RECURSIVE NodeAt(_, _)
NodeAt(root, path) ==
    IF path = <<>> THEN root
    ELSE NodeAt(root.children[Head(path) + 1], Tail(path))

\* Option<&Node>
NoNode == [some |-> FALSE, path |-> <<>>]
SomeNode(path) == [some |-> TRUE, path |-> path]

\* e.children.get(i) of the node at path, None when it is no Element
child_get(root, path, i) ==
    LET n == NodeAt(root, path) IN
    IF n.kind = "Element" /\ i < Len(n.children)
    THEN SomeNode(Append(path, i))
    ELSE NoNode

\* pop_loop with the `continue` lost: gives up at the first exhausted parent
RECURSIVE pop_loop_no_continue(_, _)
pop_loop_no_continue(root, index) ==
    IF index = <<>> THEN [index |-> <<>>, next_node |-> NoNode]
    ELSE LET top == index[Len(index)]
             rest == SubSeq(index, 1, Len(index) - 1)
             next_sibling == top.i + 1
             sibling == child_get(root, top.parent, next_sibling)
         IN  IF sibling.some
             THEN [index |-> Append(rest, [i |-> next_sibling, parent |-> top.parent]),
                   next_node |-> sibling]
             ELSE [index |-> rest, next_node |-> NoNode]

\* pop_loop pushing the frame back with the index it was popped with
RECURSIVE pop_loop_stale_index(_, _)
pop_loop_stale_index(root, index) ==
    IF index = <<>> THEN [index |-> <<>>, next_node |-> NoNode]
    ELSE LET top == index[Len(index)]
             rest == SubSeq(index, 1, Len(index) - 1)
             next_sibling == top.i + 1
             sibling == child_get(root, top.parent, next_sibling)
         IN  IF sibling.some
             THEN [index |-> Append(rest, [i |-> top.i, parent |-> top.parent]),
                   next_node |-> sibling]
             ELSE pop_loop_stale_index(root, rest)

\* The `while !has_finished` loop of next(): frames are popped until one has
\* a sibling past its index, or none is left.
RECURSIVE pop_loop(_, _)
pop_loop(root, index) ==
    IF index = <<>> THEN [index |-> <<>>, next_node |-> NoNode]
    ELSE LET top == index[Len(index)]
             rest == SubSeq(index, 1, Len(index) - 1)
             next_sibling == top.i + 1
             sibling == child_get(root, top.parent, next_sibling)
         IN  IF sibling.some
             THEN [index |-> Append(rest, [i |-> next_sibling, parent |-> top.parent]),
                   next_node |-> sibling]
             ELSE pop_loop(root, rest)

\* next() that goes back to the node the iterator was made from when the
\* frames run out
iterator_next_rewinds(root, it) ==
    LET child == child_get(root, it.node, 0) IN
    IF child.some
    THEN [node |-> child.path,
          index |-> Append(it.index, [i |-> 0, parent |-> it.node]),
          result |-> child]
    ELSE IF Len(it.index) > 0
         THEN LET r == pop_loop(root, it.index) IN
              [node |-> IF r.next_node.some THEN r.next_node.path ELSE <<>>,
               index |-> r.index,
               result |-> r.next_node]
         ELSE [node |-> it.node, index |-> it.index, result |-> NoNode]

\* NodeIntoIterator::next on the state it = [node, index]
iterator_next(root, it) ==
    LET child == child_get(root, it.node, 0) IN
    IF child.some
    THEN [node |-> child.path,
          index |-> Append(it.index, [i |-> 0, parent |-> it.node]),
          result |-> child]
    ELSE IF Len(it.index) > 0
         THEN LET r == pop_loop(root, it.index) IN
              [node |-> IF r.next_node.some THEN r.next_node.path ELSE it.node,
               index |-> r.index,
               result |-> r.next_node]
         ELSE [node |-> it.node, index |-> it.index, result |-> NoNode]

RECURSIVE NodeCount(_)
RECURSIVE ForestCount(_)
NodeCount(node) == 1 + ForestCount(node.children)
ForestCount(f) == IF f = <<>> THEN 0 ELSE NodeCount(Head(f)) + ForestCount(Tail(f))

\* into_iter on a node of the tree set
InitIter ==
    /\ InitDom
    /\ InitNodesIdle
    /\ InitJsonIdle
    /\ InitFmtIdle
    /\ InitElIdle
    /\ InitRtIdle
    /\ it_root \in Trees
    /\ it_node = <<>>
    /\ it_index = <<>>
    /\ it_last = NoNode
    /\ it_out = <<>>
    /\ it_calls = 0

\* one call of next(); the caller goes on calling a few times after None
IterNext ==
    /\ it_calls < NodeCount(it_root) + 2
    /\ LET r == iterator_next(it_root, [node |-> it_node, index |-> it_index]) IN
       /\ it_node' = r.node
       /\ it_index' = r.index
       /\ it_last' = r.result
       /\ it_out' = IF r.result.some THEN Append(it_out, r.result.path) ELSE it_out
    /\ it_calls' = it_calls + 1
    /\ UNCHANGED <<it_root, domVars, rtVars, elVars, fmtVars, jsonVars, nodesVars>>

NextIter == IterNext

SpecIter == InitIter /\ [][NextIter]_vars

---------------------------------------------------------------------------
(* Properties of the iterator                                              *)

\* The recursive pre-order walk: the node, then the walk of each child in order
RECURSIVE PreOrder(_, _)
RECURSIVE PreOrderChildren(_, _, _)
PreOrder(root, path) ==
    <<path>> \o PreOrderChildren(root, path, 0)
PreOrderChildren(root, path, i) ==
    IF i >= Len(NodeAt(root, path).children) THEN <<>>
    ELSE PreOrder(root, Append(path, i)) \o PreOrderChildren(root, path, i + 1)

IterEnded == it_calls > 0 /\ ~it_last.some

C28_EndsAndStaysEnded ==
    /\ [](/\ Len(it_out) < NodeCount(it_root)
          /\ it_calls >= NodeCount(it_root) + 1 => IterEnded)
    /\ [][IterEnded => (~it_last'.some /\ it_out' = it_out /\ it_index' = <<>>)]_vars

\* a tree of five nodes: None at the fifth call, and at the two calls after
C28_Witness ==
    /\ NodeCount(it_root) = 5
    /\ it_calls = 7
    /\ Len(it_out) = 4
    /\ IterEnded
    /\ \E i \in DOMAIN it_out : Len(it_out[i]) >= 2

\* C29: after a call of next() that yields a node, the frames are the path
\* from the root to that node: as many frames as the node is deep; the
\* parent of the first frame is the root; every frame's parent is an Element
\* with a child at the frame's index; that child is the parent of the frame
\* above, and for the top frame it is the node yielded.
C29_FramesArePath ==
    it_last.some =>
        /\ it_node = it_last.path
        /\ Len(it_index) = Len(it_node)
        /\ Len(it_index) > 0
        /\ it_index[1].parent = <<>>
        /\ \A k \in DOMAIN it_index :
              LET frame == it_index[k]
                  p == NodeAt(it_root, frame.parent)
              IN  /\ p.kind = "Element"
                  /\ frame.i < Len(p.children)
                  /\ Append(frame.parent, frame.i) =
                        (IF k < Len(it_index) THEN it_index[k + 1].parent ELSE it_node)

\* a node two levels down, reached by popping a frame: a second child, whose
\* elder sibling had a child of its own
C29_Witness ==
    /\ it_last.some
    /\ Len(it_index) = 2
    /\ it_index[2].i = 1
    /\ Len(it_out) >= 3
    /\ \E i \in DOMAIN it_out : Len(it_out[i]) = 3

---------------------------------------------------------------------------
(* Formatter                                                               *)

\* FormattingOptions::pretty() (Default) and FormattingOptions::compact()
pretty == [double_quot |-> FALSE, new_lines |-> TRUE, max_len |-> 60, tab_size |-> 4]
compact == [double_quot |-> FALSE, new_lines |-> FALSE, max_len |-> 0, tab_size |-> 0]

\* FormattingOptions::quotes
quotes(o) == IF o.double_quot THEN "\"" ELSE "'"

RECURSIVE Repeat(_, _)
Repeat(c, n) == IF n <= 0 THEN <<>> ELSE <<c>> \o Repeat(c, n - 1)

\* FormattingOptions::fmt_depth: what it writes
fmt_depth(o, depth) ==
    IF o.tab_size = 0 \/ depth < o.tab_size THEN <<>>
    ELSE Repeat("\t", depth \div o.tab_size)

\* The byte of a character, for the characters of the model
Digits == <<"0", "1", "2", "3", "4", "5", "6", "7", "8", "9">>

IndexIn(seq, c) == CHOOSE i \in DOMAIN seq : seq[i] = c

CharCode(c) ==
    CASE c = "\t" -> 9
      [] c = "\n" -> 10
      [] c = " " -> 32
      [] c = "!" -> 33
      [] c = "\"" -> 34
      [] c = "#" -> 35
      [] c = "'" -> 39
      [] c = "-" -> 45
      [] c = "/" -> 47
      [] c = "<" -> 60
      [] c = "=" -> 61
      [] c = ">" -> 62
      [] c = "\\" -> 92
      [] c = "_" -> 95
      [] \E i \in DOMAIN Digits : Digits[i] = c -> 47 + IndexIn(Digits, c)
      [] \E i \in DOMAIN UpperChars : UpperChars[i] = c -> 64 + IndexIn(UpperChars, c)
      [] \E i \in DOMAIN LowerChars : LowerChars[i] = c -> 96 + IndexIn(LowerChars, c)
      [] OTHER -> 127

\* Ord for str: byte-wise lexicographic, a proper prefix first
RECURSIVE StrLess(_, _)
StrLess(a, b) ==
    IF b = <<>> THEN FALSE
    ELSE IF a = <<>> THEN TRUE
    ELSE IF CharCode(Head(a)) # CharCode(Head(b))
         THEN CharCode(Head(a)) < CharCode(Head(b))
         ELSE StrLess(Tail(a), Tail(b))

\* The keys of a BTreeMap collected from the map, in iteration order
RECURSIVE SortedKeys(_)
SortedKeys(keys) ==
    IF keys = {} THEN <<>>
    ELSE LET m == CHOOSE x \in keys : \A y \in keys : x = y \/ StrLess(x, y)
         IN  <<m>> \o SortedKeys(keys \ {m})

\* ordered_attributes walking the keys from the greatest to the least
RECURSIVE Reversed(_)
Reversed(seq) == IF seq = <<>> THEN <<>> ELSE Append(Reversed(Tail(seq)), Head(seq))

ordered_attributes_reversed(el) == Reversed(SortedKeys(DOMAIN el.attributes))

ordered_attributes(el) == SortedKeys(DOMAIN el.attributes)

\* attr_len: the sum does not depend on the order the HashMap is walked in
RECURSIVE attr_len_sum(_, _)
attr_len_sum(attributes, keys) ==
    IF keys = <<>> THEN 0
    ELSE LET k == Head(keys)
             v == attributes[k]
         IN  Len(k) + (IF v.some THEN Len(v.v) ELSE 0) + 4
                + attr_len_sum(attributes, Tail(keys))

attr_len(el) == attr_len_sum(el.attributes, ordered_attributes(el))

RECURSIVE classes_sum(_)
classes_sum(classes) ==
    IF classes = <<>> THEN 0
    ELSE Len(Head(classes)) + 1 + classes_sum(Tail(classes))

classes_len(el) == IF el.classes = <<>> THEN 0 ELSE classes_sum(el.classes) + 8

\* e_len: the projected length of the opening tag on one line
e_len(el, depth) == depth + 1 + Len(el.name) + attr_len(el) + 1 + classes_len(el)

\* c_inline wrapping from a length equal to max_len on
c_inline_at_max(el, o, depth) ==
    IF e_len(el, depth) >= o.max_len /\ o.new_lines
    THEN <<"\n">> \o fmt_depth(o, depth + o.tab_size)
    ELSE <<" ">>

\* c_inline: what separates the class block and the attributes
c_inline(el, o, depth) ==
    IF e_len(el, depth) > o.max_len /\ o.new_lines
    THEN <<"\n">> \o fmt_depth(o, depth + o.tab_size)
    ELSE <<" ">>

\* the classes joined: each trimmed, an empty one dropped, a space before
\* every one but the one at index 0
RECURSIVE join_classes(_, _)
join_classes(classes, i) ==
    IF i > Len(classes) THEN <<>>
    ELSE LET c == trim(classes[i]) IN
         (IF c = <<>> THEN <<>> ELSE IF i = 1 THEN c ELSE <<" ">> \o c)
             \o join_classes(classes, i + 1)

fmt_classes(el, o, depth) ==
    IF el.classes = <<>> THEN <<>>
    ELSE c_inline(el, o, depth) \o <<"c", "l", "a", "s", "s", "=">> \o <<quotes(o)>>
            \o join_classes(el.classes, 1) \o <<quotes(o)>>

\* v.replace(quote, backslash + quote)
RECURSIVE escape_quotes(_, _)
escape_quotes(v, q) ==
    IF v = <<>> THEN <<>>
    ELSE (IF Head(v) = q THEN <<"\\", q>> ELSE <<Head(v)>>) \o escape_quotes(Tail(v), q)

RECURSIVE fmt_attributes(_, _, _, _)
fmt_attributes(el, o, depth, keys) ==
    IF keys = <<>> THEN <<>>
    ELSE LET k == Head(keys)
             v == el.attributes[k]
         IN  (IF v.some
              THEN c_inline(el, o, depth) \o k \o <<"=", quotes(o)>>
                      \o escape_quotes(v.v, quotes(o)) \o <<quotes(o)>>
              ELSE c_inline(el, o, depth) \o k)
             \o fmt_attributes(el, o, depth, Tail(keys))

\* end_tag looking at the children alone, whatever the variant
end_tag_by_children(el, o, depth) ==
    LET long == e_len(el, depth) > o.max_len
        open == el.children # <<>>
    IN  CASE long /\ open -> <<"\n">> \o fmt_depth(o, depth) \o <<">">>
          [] long /\ ~open -> <<"\n">> \o fmt_depth(o, depth) \o <<"/", ">">>
          [] ~long /\ open -> <<">">>
          [] OTHER -> <<"/", ">">>

\* the `match (e_len > o.max_len, variant == Normal && !children.is_empty())`
end_tag(el, o, depth) ==
    LET long == e_len(el, depth) > o.max_len
        open == el.variant = "Normal" /\ el.children # <<>>
    IN  CASE long /\ open -> <<"\n">> \o fmt_depth(o, depth) \o <<">">>
          [] long /\ ~open -> <<"\n">> \o fmt_depth(o, depth) \o <<"/", ">">>
          [] ~long /\ open -> <<">">>
          [] OTHER -> <<"/", ">">>

\* whether the single text child is printed on the line of the tag
text_inline(el, o, depth) ==
    /\ el.children # <<>>
    /\ el.children[1].kind = "Text"
    /\ Len(el.children) = 1
    /\ depth + o.tab_size + Len(el.children[1].text) + Len(el.name) + 3 <= o.max_len

closing_tag(el) == <<"<", "/">> \o el.name \o <<">">>

\* Node::fmt_opt and Element::fmt_opt: the text written
RECURSIVE node_fmt_opt(_, _, _)
RECURSIVE element_fmt_opt(_, _, _)
RECURSIVE fmt_children(_, _, _)

node_fmt_opt(node, o, depth) ==
    CASE node.kind = "Element" -> element_fmt_opt(node, o, depth)
      [] node.kind = "Text" -> fmt_depth(o, depth) \o trim(node.text)
      [] OTHER -> fmt_depth(o, depth) \o <<"<", "!", "-", "-", " ">> \o node.text
                     \o <<" ", "-", "-", ">">>

fmt_children(children, o, depth) ==
    IF children = <<>> THEN <<>>
    ELSE <<"\n">> \o node_fmt_opt(Head(children), o, depth)
            \o fmt_children(Tail(children), o, depth)

element_fmt_opt(el, o, depth) ==
    LET start == fmt_depth(o, depth) \o <<"<">> \o el.name
                    \o fmt_classes(el, o, depth)
                    \o fmt_attributes(el, o, depth, ordered_attributes(el))
                    \o end_tag(el, o, depth)
    IN  IF ~(el.variant = "Normal" /\ el.children # <<>>) THEN start
        ELSE IF text_inline(el, o, depth)
             THEN start \o el.children[1].text \o closing_tag(el)
             ELSE start \o fmt_children(el.children, o, depth + o.tab_size)
                     \o <<"\n">> \o fmt_depth(o, depth) \o closing_tag(el)

\* Dom::fmt_opt: every child at depth 0, a line break after each
RECURSIVE dom_fmt_children(_, _)
dom_fmt_children(children, o) ==
    IF children = <<>> THEN <<>>
    ELSE node_fmt_opt(Head(children), o, 0) \o <<"\n">>
            \o dom_fmt_children(Tail(children), o)

dom_fmt_opt(d, o) == dom_fmt_children(d.children, o)

---------------------------------------------------------------------------
(* Node::fmt_opt on its own: one node, one set of options, one depth       *)

S_a == <<"a">>
S_ab == <<"a", "b">>
S_B == <<"B">>

\* attributes.insert(key, value) calls: [key, value]
InsertOps ==
    { [key |-> S_id, value |-> Some(<<"1">>)],
      [key |-> S_a, value |-> Some(<<"2">>)],
      [key |-> S_a, value |-> None],
      [key |-> S_ab, value |-> Some(<<"1">>)],
      [key |-> S_B, value |-> None] }

\* The most insert calls that make the attributes of one element
MaxInserts == 3

RECURSIVE InsertSeqs(_)
InsertSeqs(n) ==
    IF n = 0 THEN { <<>> }
    ELSE InsertSeqs(n - 1) \cup { Append(a, p) : a \in InsertSeqs(n - 1), p \in InsertOps }

\* the map the insert calls leave
RECURSIVE Inserted(_, _)
Inserted(inserts, n) ==
    IF n = 0 THEN EmptyMap
    ELSE MapInsert(Inserted(inserts, n - 1), inserts[n].key, inserts[n].value)

\* options with wrapping on and a width of the caller's choice
Narrow(max_len) ==
    [double_quot |-> FALSE, new_lines |-> TRUE, max_len |-> max_len, tab_size |-> 4]

FmtOptions == { pretty, compact, Narrow(11), Narrow(12) }

FmtDepths == { 0, 4 }

\* nodes with children: the element of DivPair, a single text child, a
\* childless Normal element, a Void element that holds children (an element
\* built without an end event), a single text child behind an attribute, a
\* text and a comment
FmtNodes ==
    { build_node_element(DivPair, <<>>).node,
      ElementNode(S_p, "Normal", EmptyMap, <<>>, <<TextNode(<<" ", "t", " ">>)>>, DefaultSpan),
      ElementNode(S_p, "Normal", EmptyMap, <<>>, <<>>, DefaultSpan),
      ElementNode(S_div, "Void", EmptyMap, <<>>,
                  <<TextNode(<<"t">>),
                    ElementNode(S_p, "Normal", EmptyMap, <<>>, <<>>, DefaultSpan)>>,
                  DefaultSpan),
      ElementNode(S_p, "Normal", MapInsert(EmptyMap, S_id, Some(<<"1">>)), <<>>,
                  <<TextNode(<<"t">>)>>, DefaultSpan),
      TextNode(<<" ", "t", " ">>),
      CommentNode(<<"c">>) }

InitFormat ==
    /\ InitDom
    /\ InitNodesIdle
    /\ InitJsonIdle
    /\ InitIterIdle
    /\ InitRtIdle
    /\ InitElIdle
    /\ f_pc = "input"
    /\ \/ /\ f_inserts \in InsertSeqs(MaxInserts)
          /\ \E classes \in { <<>>, <<<<"x">>, <<"y">>>> } :
                f_node = ElementNode(S_div, "Void", Inserted(f_inserts, Len(f_inserts)),
                                     classes, <<>>, DefaultSpan)
       \/ /\ f_inserts = <<>>
          /\ f_node \in FmtNodes
    /\ f_opts \in FmtOptions
    /\ f_depth \in FmtDepths
    /\ f_text = <<>>

\* node.fmt_opt(&mut f_text, &f_opts, f_depth)
Render ==
    /\ f_pc = "input"
    /\ f_text' = node_fmt_opt(f_node, f_opts, f_depth)
    /\ f_pc' = "rendered"
    /\ UNCHANGED <<f_inserts, f_node, f_opts, f_depth, domVars, itVars, rtVars, elVars, jsonVars, nodesVars>>

NextFormat == Render

SpecFormat == InitFormat /\ [][NextFormat]_vars

\* What is read off the text written
CountOf(text, c) == Cardinality({i \in DOMAIN text : text[i] = c})

\* the class block and the attributes of a node: how many parts
PartsOf(node) ==
    Cardinality(DOMAIN node.attributes) + (IF node.classes = <<>> THEN 0 ELSE 1)

\* d + 1 + len(name) + sum of (len(key) + len(value or 0) + 4) + class block + 1
RECURSIVE ProjectedAttrs(_, _)
ProjectedAttrs(attributes, keys) ==
    IF keys = {} THEN 0
    ELSE LET k == CHOOSE x \in keys : TRUE IN
         Len(k) + (IF attributes[k].some THEN Len(attributes[k].v) ELSE 0) + 4
             + ProjectedAttrs(attributes, keys \ {k})
RECURSIVE ProjectedClasses(_, _)
ProjectedClasses(classes, n) ==
    IF n = 0 THEN 0 ELSE Len(classes[n]) + 1 + ProjectedClasses(classes, n - 1)
ProjectedLen(node, d) ==
    d + 1 + Len(node.name) + ProjectedAttrs(node.attributes, DOMAIN node.attributes)
        + (IF node.classes = <<>> THEN 0
           ELSE ProjectedClasses(node.classes, Len(node.classes)) + 8)
        + 1

\* a childless element with a part to place, rendered with wrapping on
WrapCase ==
    /\ f_pc = "rendered"
    /\ f_opts.new_lines
    /\ f_node.kind = "Element"
    /\ f_node.children = <<>>
    /\ PartsOf(f_node) > 0

\* C16: with wrapping on, the class block and the attributes of an element go
\* on continuation lines of their own (one line break before each, and one
\* before the closing bracket) if and only if the projected inline length is
\* greater than max_len; otherwise the tag holds no line break.
C16_WrapBoundary ==
    WrapCase =>
        CountOf(f_text, "\n") =
            (IF ProjectedLen(f_node, f_depth) > f_opts.max_len
             THEN PartsOf(f_node) + 1
             ELSE 0)

\* <div id='1'/> at depth 0 has length 12: inline at max_len 12
C16_Witness ==
    /\ WrapCase
    /\ ProjectedLen(f_node, f_depth) = f_opts.max_len
    /\ CountOf(f_text, "\n") = 0

\* where a key stands in the text written: after a blank, a tab or a line
\* break, and before "=", a separator or the end of the tag; 0 if nowhere
KeyPos(text, key) ==
    LET at == {i \in 2..(Len(text) - Len(key)) :
                  /\ SubSeq(text, i, i + Len(key) - 1) = key
                  /\ text[i - 1] \in {" ", "\t", "\n"}
                  /\ text[i + Len(key)] \in {"=", " ", "\n", "/", ">"}}
    IN  IF at = {} THEN 0 ELSE CHOOSE i \in at : \A j \in at : i <= j

\* C17: the attributes of an element are written in the lexicographic order
\* of their keys, whatever the order of the insert calls that made them.
C17_AttributesInKeyOrder ==
    (f_pc = "rendered" /\ f_node.kind = "Element") =>
        LET keys == DOMAIN f_node.attributes IN
        /\ \A k \in keys : KeyPos(f_text, k) > 0
        /\ \A k1, k2 \in keys :
              StrLess(k1, k2) => KeyPos(f_text, k1) < KeyPos(f_text, k2)

\* inserted as id, a, B and written as B, a, id
C17_Witness ==
    /\ f_pc = "rendered"
    /\ Len(f_inserts) = 3
    /\ f_inserts[1].key = S_id /\ f_inserts[2].key = S_a /\ f_inserts[3].key = S_B
    /\ 0 < KeyPos(f_text, S_B)
    /\ KeyPos(f_text, S_B) < KeyPos(f_text, S_a)
    /\ KeyPos(f_text, S_a) < KeyPos(f_text, S_id)

\* C18: with the compact preset what a node renders to is on one line: the
\* text holds no line break.
C18_CompactIsOneLine ==
    (f_pc = "rendered" /\ f_opts = compact) => CountOf(f_text, "\n") = 0

\* Where the closing bracket of the opening tag starts in the text written:
\* at the first ">", or at the "/" in front of it.  No name, key or value of
\* the model holds a ">".
BracketPos(text) ==
    LET gts == {i \in DOMAIN text : text[i] = ">"}
        p == CHOOSE i \in gts : \A j \in gts : i <= j
    IN  IF p > 1 /\ text[p - 1] = "/" THEN p - 1 ELSE p

\* the bracket stands on a line of its own: between the line break before it
\* and the bracket there is indentation only
BracketOnOwnLine(text) ==
    LET b == BracketPos(text) IN
    \E j \in 1..(b - 1) :
        /\ text[j] = "\n"
        /\ \A i \in (j + 1)..(b - 1) : text[i] = "\t"

\* C22: the closing bracket of the opening tag of an element is on a line of
\* its own if and only if the opening tag was wrapped, that is if and only if
\* wrapping is enabled and the projected length is greater than max_len;
\* otherwise the bracket follows on the line of the tag.
C22_BracketFollowsWrap ==
    (f_pc = "rendered" /\ f_node.kind = "Element") =>
        (BracketOnOwnLine(f_text) <=>
            (f_opts.new_lines /\ ProjectedLen(f_node, f_depth) > f_opts.max_len))

\* a text occurs in the text written
Occurs(text, sub) ==
    \E i \in 1..(Len(text) - Len(sub) + 1) : SubSeq(text, i, i + Len(sub) - 1) = sub

EndsWith(text, sub) ==
    /\ Len(sub) <= Len(text)
    /\ SubSeq(text, Len(text) - Len(sub) + 1, Len(text)) = sub

\* how many "<" the rendering of a node holds: one per Comment, one per
\* self-closed element, two plus those of the children per element that is
\* Normal and holds children
RECURSIVE Opens(_)
RECURSIVE OpensOf(_, _)
Opens(node) ==
    CASE node.kind = "Text" -> 0
      [] node.kind = "Comment" -> 1
      [] OTHER -> IF node.variant = "Normal" /\ node.children # <<>>
                  THEN 2 + OpensOf(node.children, Len(node.children))
                  ELSE 1
OpensOf(children, n) ==
    IF n = 0 THEN 0 ELSE Opens(children[n]) + OpensOf(children, n - 1)

\* C23: an element is written self-closed, with "/>" and no closing tag,
\* exactly when it is Void or it is Normal with no children, and then none
\* of its children is written; otherwise it is written with ">", then every
\* child, then the closing tag </name>.
C23_SelfClosedOrChildren ==
    (f_pc = "rendered" /\ f_node.kind = "Element") =>
        LET open == f_node.variant = "Normal" /\ f_node.children # <<>>
            b == BracketPos(f_text)
        IN  /\ CountOf(f_text, "<") = Opens(f_node)
            /\ ~open =>
                  /\ EndsWith(f_text, <<"/", ">">>)
                  /\ b = Len(f_text) - 1
                  /\ ~Occurs(f_text, <<"<", "/">>)
                  /\ \A i \in DOMAIN f_node.children :
                        f_node.children[i].kind = "Text" =>
                            ~Occurs(f_text, trim(f_node.children[i].text))
            /\ open =>
                  /\ f_text[b] = ">"
                  /\ EndsWith(f_text, <<"<", "/">> \o f_node.name \o <<">">>)
                  /\ \A i \in DOMAIN f_node.children :
                        LET child == f_node.children[i] IN
                        CASE child.kind = "Text" ->
                               Occurs(SubSeq(f_text, b + 1, Len(f_text)), trim(child.text))
                          [] child.kind = "Comment" ->
                               Occurs(f_text, <<"<", "!", "-", "-", " ">> \o child.text)
                          [] OTHER ->
                               Occurs(SubSeq(f_text, b + 1, Len(f_text)),
                                      <<"<">> \o child.name)

\* a Void element with two children, written as <div/> alone
C23_Witness ==
    /\ f_pc = "rendered"
    /\ f_node.kind = "Element"
    /\ f_node.variant = "Void"
    /\ Len(f_node.children) = 2
    /\ f_opts = pretty
    /\ f_text = fmt_depth(f_opts, f_depth) \o <<"<", "d", "i", "v", "/", ">">>

\* a Normal element whose only child is a Text node, rendered
SingleTextCase ==
    /\ f_pc = "rendered"
    /\ f_node.kind = "Element"
    /\ f_node.variant = "Normal"
    /\ Len(f_node.children) = 1
    /\ f_node.children[1].kind = "Text"

\* the length of the line <name ...>text</name> at depth d: the opening tag
\* with its indentation, the text, the closing tag
InlineLen(node, d) ==
    ProjectedLen(node, d) + Len(node.children[1].text) + Len(node.name) + 3

\* the text written after the bracket of the opening tag
AfterBracket(text) ==
    LET b == BracketPos(text) IN
    SubSeq(text, IF text[b] = "/" THEN b + 2 ELSE b + 1, Len(text))

\* C24: a Normal element with exactly one child, a Text node, is written on
\* one line as <name ...>text</name> when the length of that line is at most
\* max_len; otherwise the child is written on a line of its own at depth
\* d + tab_size and the closing tag on a line of its own at depth d.
C24_SingleTextInline ==
    SingleTextCase =>
        LET after == AfterBracket(f_text)
            closing == <<"<", "/">> \o f_node.name \o <<">">>
        IN  IF InlineLen(f_node, f_depth) <= f_opts.max_len
            THEN CountOf(after, "\n") = 0
            ELSE after = <<"\n">> \o fmt_depth(f_opts, f_depth + f_opts.tab_size)
                            \o trim(f_node.children[1].text)
                            \o <<"\n">> \o fmt_depth(f_opts, f_depth) \o closing

\* C25: a Text node is written as its text with leading and trailing
\* whitespace removed, on a line of its own after the indentation, and also
\* when it is the single child of an element written on the line of the tag:
\* between the bracket of the opening tag and the closing tag stands the
\* trimmed text (and, when the child has its own line, line breaks and
\* indentation only).
C25_TextIsTrimmed ==
    /\ (f_pc = "rendered" /\ f_node.kind = "Text") =>
          f_text = fmt_depth(f_opts, f_depth) \o trim(f_node.text)
    /\ SingleTextCase =>
          LET after == AfterBracket(f_text)
              body == SubSeq(after, 1, Len(after) - Len(f_node.name) - 3)
          IN  SelectSeq(body, LAMBDA c : c \notin {"\n", "\t"})
                  = trim(f_node.children[1].text)

---------------------------------------------------------------------------
(* Grammar::parse(Rule::html, input)                                       *)
(* The grammar module is not part of the source tree.  This is the contract *)
(* of the pairs it emits, for the markup of the model: comments, an        *)
(* optional doctype, elements (void by name, self-closed, normal with a    *)
(* matching end tag, dangling end tags), attributes and text.  Raw-text    *)
(* elements and quote characters inside attribute values are left out.     *)
(* Every parser gives [ok, pos, pairs]: pos is the index after what it     *)
(* took.                                                                   *)

VoidNames ==
    { <<"b", "r">>, <<"h", "r">>, <<"i", "m", "g">>, <<"m", "e", "t", "a">>,
      <<"l", "i", "n", "k">>, <<"i", "n", "p", "u", "t">> }

IsAlpha(c) ==
    \/ \E i \in DOMAIN UpperChars : UpperChars[i] = c
    \/ \E i \in DOMAIN LowerChars : LowerChars[i] = c

IsNameChar(c) ==
    IsAlpha(c) \/ (\E i \in DOMAIN Digits : Digits[i] = c) \/ c \in {"-", "_", ":"}

\* whether lit stands in s at index i
LitAt(s, i, lit) ==
    i + Len(lit) - 1 <= Len(s) /\ SubSeq(s, i, i + Len(lit) - 1) = lit

IsValueChar(c) == ~IsWhitespace(c) /\ c \notin {"<", ">", "/"}

\* the least index of a set of indices of s, Len(s) + 1 if the set is empty
FirstOf(s, stop) ==
    IF stop = {} THEN Len(s) + 1 ELSE CHOOSE j \in stop : \A k \in stop : j <= k

\* the first index from i on that holds no whitespace, no name character,
\* no character of an unquoted value
SkipWs(s, i) == FirstOf(s, {j \in i..Len(s) : ~IsWhitespace(s[j])})
NameEnd(s, i) == FirstOf(s, {j \in i..Len(s) : ~IsNameChar(s[j])})
ValueEnd(s, i) == FirstOf(s, {j \in i..Len(s) : ~IsValueChar(s[j])})

\* the first index from i on where lit stands, 0 if none
FindLit(s, i, lit) ==
    LET at == {j \in i..Len(s) : LitAt(s, j, lit)}
    IN  IF at = {} THEN 0 ELSE CHOOSE j \in at : \A k \in at : j <= k

Failed == [ok |-> FALSE, pos |-> 0, pairs |-> <<>>]
Took(pos, pairs) == [ok |-> TRUE, pos |-> pos, pairs |-> pairs]

CommentOpen == <<"<", "!", "-", "-">>
CommentClose == <<"-", "-", ">">>

\* node_comment: WSP* <!-- WSP* body WSP* --> WSP*, from the index of "<"
grammar_comment(s, from, i) ==
    LET j == FindLit(s, i + 4, CommentClose) IN
    IF j = 0 THEN Failed
    ELSE LET pos == SkipWs(s, j + 3) IN
         Took(pos, <<Pair("node_comment", SubSeq(s, from, pos - 1),
                          <<Pair("comment_body", trim(SubSeq(s, i + 4, j - 1)), <<>>)>>)>>)

\* attr*: key, key=value, key='value', key="value"
RECURSIVE grammar_attrs(_, _)
grammar_attrs(s, i) ==
    LET k == SkipWs(s, i) IN
    IF k > Len(s) \/ ~IsAlpha(s[k]) THEN Took(k, <<>>)
    ELSE LET ke == NameEnd(s, k)
             key == SubSeq(s, k, ke - 1)
         IN  IF ~LitAt(s, ke, <<"=">>)
             THEN LET rest == grammar_attrs(s, ke) IN
                  Took(rest.pos, <<BoolAttr(key)>> \o rest.pairs)
             ELSE IF ke + 1 <= Len(s) /\ s[ke + 1] \in {"'", "\""}
             THEN LET q == FindLit(s, ke + 2, <<s[ke + 1]>>) IN
                  IF q = 0 THEN Failed
                  ELSE LET rest == grammar_attrs(s, q + 1)
                           value == SubSeq(s, ke + 2, q - 1)
                       IN  IF ~rest.ok THEN Failed
                           ELSE Took(rest.pos,
                                    <<Pair("attr", SubSeq(s, k, q),
                                        <<Pair("attr_key", key, <<>>),
                                          Pair("attr_quoted", SubSeq(s, ke + 1, q),
                                               <<Pair("attr_value", value, <<>>)>>)>>)>>
                                    \o rest.pairs)
             ELSE LET ve == ValueEnd(s, ke + 1)
                      rest == grammar_attrs(s, ve)
                  IN  IF ~rest.ok THEN Failed
                      ELSE Took(rest.pos,
                               <<NonQuotedAttr(key, SubSeq(s, ke + 1, ve - 1))>>
                               \o rest.pairs)

RECURSIVE grammar_nodes(_, _, _)
RECURSIVE grammar_element(_, _)

\* node_element at the "<" of index i
grammar_element(s, i) ==
    IF LitAt(s, i, <<"<", "/">>)
    THEN \* el_dangling
         LET ne == NameEnd(s, i + 2) IN
         IF ne > i + 2 /\ LitAt(s, ne, <<">">>)
         THEN Took(ne + 1, <<Pair("node_element", SubSeq(s, i, ne),
                                 <<Pair("el_dangling", SubSeq(s, i, ne), <<>>)>>)>>)
         ELSE Failed
    ELSE IF i + 1 > Len(s) \/ ~IsAlpha(s[i + 1]) THEN Failed
    ELSE LET ne == NameEnd(s, i + 1)
             name == SubSeq(s, i + 1, ne - 1)
             void == to_lowercase(name) \in VoidNames
             after_content(attrs, end, content) ==
                 LET last == content.pos + Len(end) - 1 IN
                 IF ~content.ok THEN Failed
                 ELSE Took(last + 1,
                          <<Pair("node_element", SubSeq(s, i, last),
                                 <<Pair("el_name", name, <<>>)>> \o attrs.pairs
                                     \o content.pairs
                                     \o <<Pair("el_normal_end", end, <<>>)>>)>>)
             after_attrs(attrs) ==
             IF ~attrs.ok THEN Failed
             ELSE IF LitAt(s, attrs.pos, <<"/", ">">>)
             THEN \* el_void, el_void_xml
                  Took(attrs.pos + 2,
                       <<Pair("node_element", SubSeq(s, i, attrs.pos + 1),
                              <<Pair(IF void THEN "el_void_name" ELSE "el_name",
                                     name, <<>>)>> \o attrs.pairs)>>)
             ELSE IF ~LitAt(s, attrs.pos, <<">">>) THEN Failed
             ELSE IF void
             THEN Took(attrs.pos + 1,
                       <<Pair("node_element", SubSeq(s, i, attrs.pos),
                              <<Pair("el_void_name", name, <<>>)>> \o attrs.pairs)>>)
             ELSE \* el_normal: nodes up to the end tag of this name
                  LET end == <<"<", "/">> \o name \o <<">">> IN
                  after_content(attrs, end, grammar_nodes(s, attrs.pos + 1, end))
         IN  after_attrs(grammar_attrs(s, ne))

\* node* up to the end tag `end` (to the end of the input when end is empty)
grammar_nodes(s, i, end) ==
    IF i > Len(s) THEN (IF end = <<>> THEN Took(i, <<>>) ELSE Failed)
    ELSE IF end # <<>> /\ LitAt(s, i, end) THEN Took(i, <<>>)
    ELSE LET after_rest(one, rest) ==
                 IF ~rest.ok THEN Failed
                 ELSE Took(rest.pos, one.pairs \o rest.pairs)
             after_one(one) ==
                 IF ~one.ok THEN Failed
                 ELSE after_rest(one, grammar_nodes(s, one.pos, end))
         IN  after_one(
                 IF LitAt(s, SkipWs(s, i), CommentOpen)
                 THEN grammar_comment(s, i, SkipWs(s, i))
                 ELSE IF s[i] = "<" THEN grammar_element(s, i)
                 ELSE LET lt == FindLit(s, i, <<"<">>)
                          stop == IF lt = 0 THEN Len(s) + 1 ELSE lt
                      IN  Took(stop, <<TextPair(SubSeq(s, i, stop - 1))>>))

\* node_comment* at the start of the input
RECURSIVE grammar_comments(_, _)
grammar_comments(s, i) ==
    IF LitAt(s, SkipWs(s, i), CommentOpen)
    THEN LET one == grammar_comment(s, i, SkipWs(s, i)) IN
         IF ~one.ok THEN Failed
         ELSE LET rest == grammar_comments(s, one.pos) IN
              IF ~rest.ok THEN Failed ELSE Took(rest.pos, one.pairs \o rest.pairs)
    ELSE Took(i, <<>>)

\* doctype?: WSP* <!doctype .. >
grammar_doctype(s, i) ==
    LET k == SkipWs(s, i)
        word == <<"<", "!", "d", "o", "c", "t", "y", "p", "e">>
    IN  IF k + Len(word) - 1 <= Len(s)
           /\ to_lowercase(SubSeq(s, k, k + Len(word) - 1)) = word
           /\ FindLit(s, k, <<">">>) # 0
        THEN LET e == FindLit(s, k, <<">">>) IN
             Took(e + 1, <<Pair("doctype", SubSeq(s, i, e), <<>>)>>)
        ELSE Took(i, <<>>)

\* html: SOI node_comment* doctype? node* EOI
grammar_parse(s) ==
    LET after_nodes(comments, doctype, nodes) ==
            IF ~nodes.ok THEN Failed
            ELSE Took(nodes.pos,
                      comments.pairs \o doctype.pairs \o nodes.pairs \o <<EOIPair>>)
        after_doctype(comments, doctype) ==
            after_nodes(comments, doctype, grammar_nodes(s, doctype.pos, <<>>))
        after_comments(comments) ==
            IF ~comments.ok THEN Failed
            ELSE after_doctype(comments, grammar_doctype(s, comments.pos))
    IN  after_comments(grammar_comments(s, 1))

---------------------------------------------------------------------------
(* Dom::parse as a function of the input, and the round trip               *)

\* the `for pair in pairs` loop of build_dom: [tag, dom], tag "Panic" when
\* an unreachable!() or expect() was hit
RECURSIVE first_pass(_, _, _)
first_pass(pairs, i, d) ==
    IF i > Len(pairs) THEN [tag |-> "Ok", dom |-> d]
    ELSE LET pair == pairs[i] IN
         CASE pair.rule = "doctype" -> first_pass(pairs, i + 1, on_doctype(d))
           [] pair.rule = "node_element" ->
                LET r == build_node_element(pair, d.warnings) IN
                IF r.tag = "Panic"
                THEN [tag |-> "Panic", dom |-> [d EXCEPT !.warnings = r.warnings]]
                ELSE first_pass(pairs, i + 1, on_node_element(d, r))
           [] pair.rule = "node_text" -> first_pass(pairs, i + 1, on_node_text(d, pair))
           [] pair.rule = "node_comment" ->
                first_pass(pairs, i + 1, on_node_comment(d, pair))
           [] pair.rule = "EOI" -> first_pass(pairs, i + 1, d)
           [] OTHER -> [tag |-> "Panic", dom |-> d]

\* the Empty arm's loop
RECURSIVE validate_empty(_, _)
validate_empty(d, i) ==
    IF i > Len(d.children) THEN Result("Ok", d, NoError)
    ELSE LET r == empty_step(d, d.children[i]) IN
         IF r.pc = "panic" THEN Result("Panic", d, NoError)
         ELSE validate_empty([d EXCEPT !.tree_type = r.tree_type], i + 1)

\* the DocumentFragment arm's loop
RECURSIVE validate_fragment(_, _, _)
validate_fragment(d, st, i) ==
    IF i > Len(d.children) THEN Result("Ok", [d EXCEPT !.tree_type = st.tree_type], NoError)
    ELSE LET r == fragment_step(st, d.children[i]) IN
         IF r.pc = "err" THEN Result("Err", [d EXCEPT !.tree_type = r.tree_type], r.error)
         ELSE validate_fragment(d, r, i + 1)

\* Dom::build_dom
build_dom(pairs) ==
    LET validate(p) ==
    IF p.tag = "Panic" THEN Result("Panic", p.dom, NoError)
    ELSE CASE p.dom.tree_type = "Empty" -> validate_empty(p.dom, 1)
           [] p.dom.tree_type = "Document" ->
                LET r == document_check(p.dom) IN
                Result(IF r.pc = "err" THEN "Err" ELSE "Ok", p.dom, r.error)
           [] OTHER ->
                validate_fragment(p.dom,
                    [pc |-> "val_fragment", tree_type |-> p.dom.tree_type,
                     seen_html |-> FALSE, seen_elements |-> FALSE, error |-> NoError],
                    1)
    IN  validate(first_pass(pairs, 1, DefaultDom))

\* Dom::parse
Dom_parse(input) ==
    LET build(g) ==
            IF ~g.ok THEN Result("Err", DefaultDom, ParsingError("grammar", ""))
            ELSE build_dom(g.pairs)
    IN  build(grammar_parse(input))

\* The markup the round trip starts from: up to MaxChunks pieces in a row
MaxChunks == 2

Chunks ==
    { DoctypePair.str,
      NormalElement(S_html, <<>>, <<>>).str,
      NormalElement(S_head, <<>>, <<>>).str,
      NormalElement(S_p, <<>>, <<TextPair(<<"t">>)>>).str,
      DivPair.str,
      VoidElement("el_void_name", S_br, <<>>).str,
      VoidElement("el_name", S_div, <<BoolAttr(S_id)>>).str,
      DanglingElement(S_p).str,
      CommentPair(<<"x">>).str,
      <<"a", " ", "b">> }

RECURSIVE Inputs(_)
Inputs(n) ==
    IF n = 0 THEN { <<>> }
    ELSE Inputs(n - 1) \cup { a \o c : a \in Inputs(n - 1), c \in Chunks }

InitRoundTrip ==
    /\ InitDom
    /\ InitNodesIdle
    /\ InitJsonIdle
    /\ InitFmtIdle
    /\ InitElIdle
    /\ InitIterIdle
    /\ rt_pc = "input"
    /\ rt_input \in Inputs(MaxChunks)
    /\ rt_dom = Result("None", DefaultDom, NoError)
    /\ rt_opts = compact
    /\ rt_text = <<>>
    /\ rt_dom2 = Result("None", DefaultDom, NoError)

\* let dom = Dom::parse(input)
RtParse ==
    /\ rt_pc = "input"
    /\ rt_dom' = Dom_parse(rt_input)
    /\ rt_pc' = "parsed"
    /\ UNCHANGED <<rt_input, rt_opts, rt_text, rt_dom2, domVars, itVars, elVars, fmtVars, jsonVars, nodesVars>>

\* dom.fmt_opt(&mut text, &o), for the two presets
RtRender ==
    \E o \in {pretty, compact} :
        /\ rt_pc = "parsed"
        /\ rt_dom.tag = "Ok"
        /\ rt_opts' = o
        /\ rt_text' = dom_fmt_opt(rt_dom.dom, o)
        /\ rt_pc' = "rendered"
        /\ UNCHANGED <<rt_input, rt_dom, rt_dom2, domVars, itVars, elVars, fmtVars, jsonVars, nodesVars>>

\* Dom::parse(&text)
RtReparse ==
    /\ rt_pc = "rendered"
    /\ rt_dom2' = Dom_parse(rt_text)
    /\ rt_pc' = "reparsed"
    /\ UNCHANGED <<rt_input, rt_dom, rt_opts, rt_text, domVars, itVars, elVars, fmtVars, jsonVars, nodesVars>>

NextRoundTrip ==
    \/ RtParse
    \/ RtRender
    \/ RtReparse

SpecRoundTrip == InitRoundTrip /\ [][NextRoundTrip]_vars

---------------------------------------------------------------------------
(* Properties of the round trip                                            *)

\* the same structure: kind, name, variant, attributes, classes and children
\* at every depth, the text of Text and Comment nodes compared trimmed
RECURSIVE SameNode(_, _)
RECURSIVE SameNodes(_, _)
SameNode(a, b) ==
    /\ a.kind = b.kind
    /\ a.kind = "Element" =>
          /\ a.name = b.name
          /\ a.variant = b.variant
          /\ a.attributes = b.attributes
          /\ a.classes = b.classes
          /\ SameNodes(a.children, b.children)
    /\ a.kind # "Element" => trim(a.text) = trim(b.text)
SameNodes(as, bs) ==
    /\ Len(as) = Len(bs)
    /\ \A i \in DOMAIN as : SameNode(as[i], bs[i])

\* C1: a Dom that Dom::parse returned, rendered with the pretty or the
\* compact preset and parsed again, gives Ok with the same tree_type and the
\* same structure.
C1_RoundTrip ==
    rt_pc = "reparsed" =>
        /\ rt_dom2.tag = "Ok"
        /\ rt_dom2.dom.tree_type = rt_dom.dom.tree_type
        /\ SameNodes(rt_dom2.dom.children, rt_dom.dom.children)

---------------------------------------------------------------------------
(* Node::build_nodes (Node::parse) next to Dom::build_dom, on the same     *)
(* top-level pairs                                                         *)

\* the node_text arm of build_nodes pushing the text whatever it holds
nodes_on_node_text_keeps_blank(nodes, pair) == Append(nodes, TextNode(pair.str))

\* Rule::node_element arm of build_nodes, given the result r of
\* build_node_element(pair, &mut Vec::new()): Ok(None) and Err(_) push nothing
nodes_on_node_element(nodes, r) ==
    IF r.tag = "Some" THEN Append(nodes, r.node) ELSE nodes

\* Rule::node_text arm of build_nodes
nodes_on_node_text(nodes, pair) ==
    IF trim(pair.str) # <<>> THEN Append(nodes, TextNode(pair.str)) ELSE nodes

\* the loop of build_nodes; the result is Ok(nodes), or a panic at a pair of
\* a rule without an arm
RECURSIVE build_nodes_loop(_, _, _)
build_nodes_loop(pairs, i, nodes) ==
    IF i > Len(pairs) THEN [tag |-> "Ok", nodes |-> nodes]
    ELSE LET pair == pairs[i] IN
         CASE pair.rule \in {"doctype", "EOI"} -> build_nodes_loop(pairs, i + 1, nodes)
           [] pair.rule = "node_element" ->
                LET r == build_node_element(pair, <<>>) IN
                IF r.tag = "Panic" THEN [tag |-> "Panic", nodes |-> nodes]
                ELSE build_nodes_loop(pairs, i + 1, nodes_on_node_element(nodes, r))
           [] pair.rule = "node_text" ->
                build_nodes_loop(pairs, i + 1, nodes_on_node_text(nodes, pair))
           [] pair.rule = "node_comment" ->
                build_nodes_loop(pairs, i + 1,
                    Append(nodes, CommentNode(InnerStr(pair.inner))))
           [] OTHER -> [tag |-> "Panic", nodes |-> nodes]

\* Node::build_nodes
build_nodes(pairs) == build_nodes_loop(pairs, 1, <<>>)

NodesEvents ==
    { DoctypePair,
      NormalElement(S_html, <<>>, <<>>),
      NormalElement(S_head, <<>>, <<>>),
      DivPair,
      BrokenElement(S_div),
      DanglingElement(S_p),
      TextPair(<<" ">>),
      TextPair(<<" ", "a">>),
      CommentPair(<<"x">>),
      EOIPair,
      BoolAttr(S_id) }

\* The longest top-level sequence handed to both builders
MaxEvents == 3

RECURSIVE EventSeqs(_)
EventSeqs(n) ==
    IF n = 0 THEN { <<>> }
    ELSE EventSeqs(n - 1) \cup { Append(a, p) : a \in EventSeqs(n - 1), p \in NodesEvents }

InitNodes ==
    /\ InitDom
    /\ InitIterIdle
    /\ InitRtIdle
    /\ InitElIdle
    /\ InitFmtIdle
    /\ InitJsonIdle
    /\ n_pairs \in EventSeqs(MaxEvents)
    /\ n_dom = Result("None", DefaultDom, NoError)
    /\ n_nodes = [tag |-> "None", nodes |-> <<>>]

\* Dom::build_dom(pairs)
CallBuildDom ==
    /\ n_dom.tag = "None"
    /\ n_dom' = build_dom(n_pairs)
    /\ UNCHANGED <<n_pairs, n_nodes, domVars, itVars, rtVars, elVars, fmtVars, jsonVars>>

\* Node::build_nodes(pairs)
CallBuildNodes ==
    /\ n_nodes.tag = "None"
    /\ n_nodes' = build_nodes(n_pairs)
    /\ UNCHANGED <<n_pairs, n_dom, domVars, itVars, rtVars, elVars, fmtVars, jsonVars>>

NextNodes == CallBuildDom \/ CallBuildNodes

SpecNodes == InitNodes /\ [][NextNodes]_vars

BothBuilt == n_dom.tag \notin {"None", "Idle"} /\ n_nodes.tag \notin {"None", "Idle"}

\* C30: on every top-level sequence on which build_dom succeeds, build_nodes
\* returns exactly the children of the Dom.  build_nodes validates nothing:
\* where build_dom returns Err it still returns the nodes, one per pair that
\* gives a node, and it fails only where the first pass of build_dom fails
\* too (a pair of a rule without an arm).  Its result holds nodes alone, the
\* warnings are gone.
C30_BuildNodesAgrees ==
    BothBuilt =>
        /\ n_dom.tag = "Ok" =>
              /\ n_nodes.tag = "Ok"
              /\ n_nodes.nodes = n_dom.dom.children
        /\ n_dom.tag = "Err" => n_nodes.tag = "Ok"
        /\ n_nodes.tag = "Panic" <=> n_dom.tag = "Panic"
        /\ n_nodes.tag = "Ok" =>
              Len(n_nodes.nodes) =
                  Cardinality({i \in DOMAIN n_pairs : ProducesNode(n_pairs[i])})
        /\ DOMAIN n_nodes = {"tag", "nodes"}

\* build_dom accepted a sequence with a blank text and an element that left
\* a warning, and build_nodes gave the same one node
C30_Witness ==
    /\ BothBuilt
    /\ n_dom.tag = "Ok"
    /\ Len(n_dom.dom.warnings) = 1
    /\ Len(n_nodes.nodes) = 1
    /\ n_nodes.nodes = n_dom.dom.children
    /\ \E i \in DOMAIN n_pairs : n_pairs[i].rule = "node_text" /\ trim(n_pairs[i].str) = <<>>

---------------------------------------------------------------------------
(* The structured record: what the derived Serialize and Deserialize of    *)
(* Dom, Node, Element and their serde attributes do, on JSON values         *)

\* #[serde(rename_all = "camelCase")] on DomVariant and ElementVariant
CamelCase(variant) ==
    CASE variant = "Document" -> <<"d", "o", "c", "u", "m", "e", "n", "t">>
      [] variant = "DocumentFragment" ->
           <<"d", "o", "c", "u", "m", "e", "n", "t", "F", "r", "a", "g", "m", "e", "n", "t">>
      [] variant = "Empty" -> <<"e", "m", "p", "t", "y">>
      [] variant = "Normal" -> <<"n", "o", "r", "m", "a", "l">>
      [] OTHER -> <<"v", "o", "i", "d">>

DomVariants == {"Document", "DocumentFragment", "Empty"}
ElementVariants == {"Normal", "Void"}

\* a field that skip_serializing_if leaves out when the value is empty
FieldUnless(empty, name, value) == IF empty THEN NoFields ELSE (name :> value)

\* Serialize for Node (untagged), Element and the attributes (ordered_map)
RECURSIVE Node_serialize(_)
RECURSIVE Nodes_serialize(_)
Node_serialize(node) ==
    IF node.kind = "Element"
    THEN JObj(("name" :> JStr(node.name))
              @@ ("variant" :> JStr(CamelCase(node.variant)))
              @@ FieldUnless(DOMAIN node.attributes = {}, "attributes",
                     JObj([k \in DOMAIN node.attributes |->
                              IF node.attributes[k].some
                              THEN JStr(node.attributes[k].v) ELSE JNull]))
              @@ FieldUnless(node.classes = <<>>, "classes",
                     JArr([i \in DOMAIN node.classes |-> JStr(node.classes[i])]))
              @@ FieldUnless(node.children = <<>>, "children",
                     JArr(Nodes_serialize(node.children))))
    ELSE JStr(node.text)
Nodes_serialize(nodes) ==
    IF nodes = <<>> THEN <<>>
    ELSE <<Node_serialize(Head(nodes))>> \o Nodes_serialize(Tail(nodes))

\* Serialize for Dom: warnings is skip_serializing
Dom_serialize(d) ==
    JObj(("treeType" :> JStr(CamelCase(d.tree_type)))
         @@ FieldUnless(d.children = <<>>, "children", JArr(Nodes_serialize(d.children))))

\* the variant a camelCase name stands for, "" if none of the set
VariantOf(j, variants) ==
    IF j.t = "str" /\ \E v \in variants : CamelCase(v) = j.s
    THEN CHOOSE v \in variants : CamelCase(v) = j.s
    ELSE ""

IsStrings(j) == j.t = "arr" /\ \A i \in DOMAIN j.items : j.items[i].t = "str"

Decoded(node) == [tag |-> "Ok", node |-> node]
NotDecoded == [tag |-> "Err", node |-> TextNode(<<>>)]

Has(j, name) == name \in DOMAIN j.fields

\* Deserialize for Node: untagged, the variants tried in the order Element,
\* Text, Comment; Element needs name and variant, the fields marked default
\* may be absent, source_span is skipped and takes its default.
RECURSIVE Node_deserialize(_)
RECURSIVE Nodes_deserialize(_, _)
Element_deserialize(j) ==
    IF /\ j.t = "obj"
       /\ Has(j, "name") /\ Has(j, "variant")
       /\ j.fields["name"].t = "str"
       /\ VariantOf(j.fields["variant"], ElementVariants) # ""
       /\ Has(j, "attributes") =>
             /\ j.fields["attributes"].t = "obj"
             /\ \A k \in DOMAIN j.fields["attributes"].fields :
                   j.fields["attributes"].fields[k].t \in {"str", "null"}
       /\ Has(j, "classes") => IsStrings(j.fields["classes"])
       /\ Has(j, "children") =>
             /\ j.fields["children"].t = "arr"
             /\ Nodes_deserialize(j.fields["children"].items, 1).tag = "Ok"
    THEN Decoded(ElementNode(
             j.fields["name"].s,
             VariantOf(j.fields["variant"], ElementVariants),
             IF Has(j, "attributes")
             THEN [k \in DOMAIN j.fields["attributes"].fields |->
                      IF j.fields["attributes"].fields[k].t = "str"
                      THEN Some(j.fields["attributes"].fields[k].s) ELSE None]
             ELSE EmptyMap,
             IF Has(j, "classes")
             THEN [i \in DOMAIN j.fields["classes"].items |-> j.fields["classes"].items[i].s]
             ELSE <<>>,
             IF Has(j, "children")
             THEN Nodes_deserialize(j.fields["children"].items, 1).nodes
             ELSE <<>>,
             DefaultSpan))
    ELSE NotDecoded

\* Node_deserialize with a bare string taken as a Comment
Node_deserialize_as_comment(j) ==
    IF Element_deserialize(j).tag = "Ok" THEN Element_deserialize(j)
    ELSE IF j.t = "str" THEN Decoded(CommentNode(j.s))
    ELSE NotDecoded

Node_deserialize(j) ==
    IF Element_deserialize(j).tag = "Ok" THEN Element_deserialize(j)
    ELSE IF j.t = "str" THEN Decoded(TextNode(j.s))
    ELSE NotDecoded

Nodes_deserialize(items, i) ==
    IF i > Len(items) THEN [tag |-> "Ok", nodes |-> <<>>]
    ELSE LET rest(one) ==
                 IF one.tag # "Ok" THEN [tag |-> "Err", nodes |-> <<>>]
                 ELSE LET join(more) ==
                              IF more.tag # "Ok" THEN more
                              ELSE [tag |-> "Ok", nodes |-> <<one.node>> \o more.nodes]
                      IN  join(Nodes_deserialize(items, i + 1))
         IN  rest(Node_deserialize(items[i]))

\* Deserialize for Dom: treeType, children and warnings are all required,
\* none of them is marked default
Dom_deserialize(j) ==
    IF /\ j.t = "obj"
       /\ Has(j, "treeType") /\ Has(j, "children") /\ Has(j, "warnings")
       /\ VariantOf(j.fields["treeType"], DomVariants) # ""
       /\ j.fields["children"].t = "arr"
       /\ Nodes_deserialize(j.fields["children"].items, 1).tag = "Ok"
       /\ IsStrings(j.fields["warnings"])
    THEN Result("Ok",
                [tree_type |-> VariantOf(j.fields["treeType"], DomVariants),
                 children |-> Nodes_deserialize(j.fields["children"].items, 1).nodes,
                 warnings |-> [i \in DOMAIN j.fields["warnings"].items |->
                                  j.fields["warnings"].items[i].s]],
                NoError)
    ELSE Result("Err", DefaultDom, [variant |-> "Json", msg |-> "", arg |-> ""])

\* The nodes of the trees exported: a text, a comment, <br/> with nothing to
\* omit, the element of DivPair (attributes, classes, children, a span), the
\* element of <p>t</p> (a span, no comment), and an element with a valueless
\* attribute and a text child
JsonNodes ==
    { TextNode(<<"t">>),
      CommentNode(<<"c">>),
      ElementNode(S_br, "Void", EmptyMap, <<>>, <<>>, DefaultSpan),
      build_node_element(DivPair, <<>>).node,
      build_node_element(NormalElement(S_p, <<>>, <<TextPair(<<"t">>)>>), <<>>).node,
      ElementNode(S_p, "Normal", MapInsert(EmptyMap, S_id, None), <<>>,
                  <<TextNode(<<"t">>)>>, DefaultSpan) }

\* The most top-level children of a Dom exported
MaxJsonNodes == 2

RECURSIVE JsonForests(_)
JsonForests(n) ==
    IF n = 0 THEN { <<>> }
    ELSE JsonForests(n - 1)
            \cup { Append(f, node) : f \in JsonForests(n - 1), node \in JsonNodes }

InitJson ==
    /\ InitDom
    /\ InitNodesIdle
    /\ InitIterIdle
    /\ InitRtIdle
    /\ InitElIdle
    /\ InitFmtIdle
    /\ \/ /\ j_pc = "dom"
          /\ \E tree_type \in DomVariants, children \in JsonForests(MaxJsonNodes) :
                j_dom = [tree_type |-> tree_type, children |-> children, warnings |-> <<>>]
          /\ j_node = TextNode(<<>>)
       \/ /\ j_pc = "node"
          /\ j_dom = DefaultDom
          /\ j_node \in JsonNodes
    /\ j_json = JNull
    /\ j_back = [tag |-> "None"]

\* dom.to_json()
DomToJson ==
    /\ j_pc = "dom"
    /\ j_json' = Dom_serialize(j_dom)
    /\ j_pc' = "dom_json"
    /\ UNCHANGED <<j_dom, j_node, j_back, domVars, itVars, rtVars, elVars, fmtVars, nodesVars>>

\* Dom::parse_json(&json)
DomParseJson ==
    /\ j_pc = "dom_json"
    /\ j_back' = Dom_deserialize(j_json)
    /\ j_pc' = "dom_back"
    /\ UNCHANGED <<j_dom, j_node, j_json, domVars, itVars, rtVars, elVars, fmtVars, nodesVars>>

\* node.to_json()
NodeToJson ==
    /\ j_pc = "node"
    /\ j_json' = Node_serialize(j_node)
    /\ j_pc' = "node_json"
    /\ UNCHANGED <<j_dom, j_node, j_back, domVars, itVars, rtVars, elVars, fmtVars, nodesVars>>

\* Node::parse_json(&json)
NodeParseJson ==
    /\ j_pc = "node_json"
    /\ j_back' = Node_deserialize(j_json)
    /\ j_pc' = "node_back"
    /\ UNCHANGED <<j_dom, j_node, j_json, domVars, itVars, rtVars, elVars, fmtVars, nodesVars>>

NextJson ==
    \/ DomToJson
    \/ DomParseJson
    \/ NodeToJson
    \/ NodeParseJson

SpecJson == InitJson /\ [][NextJson]_vars

RECURSIVE NoComment(_)
NoComment(node) ==
    /\ node.kind # "Comment"
    /\ \A i \in DOMAIN node.children : NoComment(node.children[i])

\* C19: a Dom with no Comment node, exported with to_json and imported with
\* Dom::parse_json, comes back Ok with the same tree_type and the same
\* children (the same structure at every depth), also when children,
\* attributes or classes are empty and left out of the record.
C19_JsonRoundTrip ==
    (j_pc = "dom_back" /\ \A i \in DOMAIN j_dom.children : NoComment(j_dom.children[i])) =>
        /\ j_back.tag = "Ok"
        /\ j_back.dom.tree_type = j_dom.tree_type
        /\ SameNodes(j_back.dom.children, j_dom.children)

\* C20: a Comment node exported and imported comes back as a Text node
\* holding the same string; a Text and a Comment of one string give the same
\* record, and a bare string is decoded as Text, also among the children of
\* an element.
C20_CommentComesBackAsText ==
    /\ (j_pc \in {"node_json", "node_back"} /\ j_node.kind # "Element") =>
          /\ j_json = JStr(j_node.text)
          /\ j_json = Node_serialize(TextNode(j_node.text))
          /\ j_json = Node_serialize(CommentNode(j_node.text))
    /\ (j_pc = "node_back" /\ j_json.t = "str") =>
          /\ j_back.tag = "Ok"
          /\ j_back.node = TextNode(j_json.s)
    /\ (j_pc = "node_back" /\ j_node.kind = "Element") =>
          /\ j_back.tag = "Ok"
          /\ Len(j_back.node.children) = Len(j_node.children)
          /\ \A i \in DOMAIN j_node.children :
                j_node.children[i].kind = "Comment" =>
                    j_back.node.children[i] = TextNode(j_node.children[i].text)

C20_Witness ==
    /\ j_pc = "node_back"
    /\ j_node = CommentNode(<<"c">>)
    /\ j_back.tag = "Ok"
    /\ j_back.node.kind = "Text"
    /\ j_back.node.text = <<"c">>

====
